---- MODULE Spec2Model ----
(***************************************************************************)
(* Model of the usage-snapshot store of claude-log-viewer                  *)
(* (src/claude_log_viewer/database.py), of the usage poller of the web     *)
(* application (src/claude_log_viewer/app.py), of the ApiPoller of         *)
(* claude_log_viewer.api_poller and of the repository lock registry of     *)
(* claude_log_viewer.git_manager.                                          *)
(*                                                                         *)
(* Values.  A Python/SQL value that may be None/NULL is modelled as a      *)
(* sequence of length at most one: NULL is <<>> and the value v is <<v>>.  *)
(* A text value is the sequence of its characters, each character a        *)
(* one-character string; the character U+00E9 (a non-ASCII letter) is      *)
(* written "U+00E9".  A REAL is kept in tenths (755 is 75.5).              *)
(* The column created_at (DEFAULT CURRENT_TIMESTAMP, the wall clock of the *)
(* INSERT) is not modelled.                                                *)
(***************************************************************************)
EXTENDS Integers, Sequences, FiniteSets, TLC

VARIABLES
    store,   \* the committed usage_snapshots table: its rows in rowid order
    last,    \* the last call made on the store and its outcome
    thr,     \* the concurrent callers of update_snapshot_calculations
    writer,  \* the holder of the database's write lock, NULL when it is free
    session_details,  \* the session_details table and its AUTOINCREMENT counter
    usage_cache,     \* app.py: the cached usage response and its time
    previous_usage,  \* app.py: the reading of the last evaluated response
    clock,           \* time.time()
    cycle,           \* what the last call of fetch_usage_data did and returned
    api_poller,      \* the ApiPoller object, NULL when none is constructed
    _repo_locks,     \* git_manager: the registry, repository path -> its lock
    registry_guard,  \* git_manager: the holder of the registry guard
    lock_objects,    \* the threading.Lock objects created, in order of creation
    acquirers,       \* the threads calling _get_repo_lock
    execution_order, \* the events of the guarded operations, in order
    latest_entries,  \* app.py: the working set in memory, as the number of its load
    reloads,         \* the calls of load_latest_entries: the thread and the argument
    file_processing_queue,  \* the work queue of reload requests
    worker           \* the thread that drains the work queue

storeVars == <<store, last, thr, writer>>

pollerVars == <<usage_cache, previous_usage, clock, cycle>>

registryVars == <<_repo_locks, registry_guard, lock_objects, acquirers, execution_order>>

watcherVars == <<latest_entries, reloads, file_processing_queue, worker>>

vars == <<storeVars, session_details, pollerVars, api_poller, registryVars, watcherVars>>

NULL == <<>>

Some(v) == <<v>>

NoError == "none"

\* ------------------------------------------------------------------ bounds
\* Most rows the usage_snapshots table holds in the sequential specifications.
MaxRows == 2

\* The number of threads that call _get_repo_lock.
MaxThreads == 3

\* Most calls of insert_session in a run.
MaxUpserts == 3

\* The number of inserts each of the concurrent writers makes.
MaxInserts == 2

\* The longest list of session ids handed to validate_session_ids.
MaxListLen == 2

\* The number of reloads of the working set, and of reload requests posted.
MaxReloads == 4

\* ------------------------------------------------------------- characters
Ord(c) ==
    CASE c = " " -> 32
      [] c = "\"" -> 34
      [] c = "," -> 44
      [] c = "-" -> 45
      [] c = "." -> 46
      [] c = "0" -> 48
      [] c = "1" -> 49
      [] c = "2" -> 50
      [] c = "5" -> 53
      [] c = "9" -> 57
      [] c = "@" -> 64
      [] c = "Z" -> 90
      [] c = "[" -> 91
      [] c = "\\" -> 92
      [] c = "]" -> 93
      [] c = "_" -> 95
      [] c = "a" -> 97
      [] c = "e" -> 101
      [] c = "s" -> 115
      [] c = "u" -> 117
      [] c = "x" -> 120
      [] c = "U+00E9" -> 233

Alphabet ==
    {" ", "\"", ",", "-", ".", "0", "1", "2", "5", "9", "@", "Z", "[", "\\", "]",
     "_", "a", "e", "s", "u", "x", "U+00E9"}

Chr(n) == CHOOSE c \in Alphabet : Ord(c) = n

\* str.isalnum() of one character: ASCII digits and letters, and the letters
\* beyond ASCII (of which the alphabet has U+00E9).
IsAlnum(c) ==
    LET n == Ord(c)
    IN  \/ n >= 48 /\ n <= 57
        \/ n >= 65 /\ n <= 90
        \/ n >= 97 /\ n <= 122
        \/ n = 233

IsSpace(c) == Ord(c) = 32

\* SQLite compares TEXT with memcmp: the first differing byte decides, and a
\* proper prefix sorts first.
RECURSIVE TextLess(_, _)
TextLess(a, b) ==
    IF b = <<>> THEN FALSE
    ELSE IF a = <<>> THEN TRUE
    ELSE IF Ord(Head(a)) # Ord(Head(b)) THEN Ord(Head(a)) < Ord(Head(b))
    ELSE TextLess(Tail(a), Tail(b))

TextLeq(a, b) == a = b \/ TextLess(a, b)

\* ---------------------------------------------------------------- schema
RawColumns ==
    <<"timestamp", "five_hour_used", "five_hour_limit", "seven_day_used",
      "seven_day_limit", "five_hour_pct", "seven_day_pct", "five_hour_reset",
      "seven_day_reset">>

\* The eight delta/total columns, in the order the statements name them.
DeltaColumns ==
    <<"five_hour_tokens_consumed", "five_hour_messages_count",
      "seven_day_tokens_consumed", "seven_day_messages_count",
      "five_hour_tokens_total", "five_hour_messages_total",
      "seven_day_tokens_total", "seven_day_messages_total">>

Range(s) == {s[i] : i \in 1..Len(s)}

RawFields == Range(RawColumns)

DeltaFields == Range(DeltaColumns)

FiveHourFields ==
    {"five_hour_tokens_consumed", "five_hour_messages_count",
     "five_hour_tokens_total", "five_hour_messages_total"}

SevenDayFields == DeltaFields \ FiveHourFields

Columns == {"id"} \cup RawFields \cup DeltaFields \cup {"active_sessions", "recalculated"}

NotNullColumns ==
    {"timestamp", "five_hour_used", "five_hour_limit", "seven_day_used", "seven_day_limit"}

\* The DEFAULT of a column an INSERT does not name.
ColumnDefault(c) == IF c = "recalculated" THEN Some(0) ELSE NULL

\* ------------------------------------------------------- SQL statements
\* Mutant: a table without NOT NULL constraints.
SqlInsertUnconstrained(db, cols) ==
    LET row == [c \in Columns |->
                  IF c = "id" THEN Some(Len(db) + 1)
                  ELSE IF c \in DOMAIN cols THEN cols[c]
                  ELSE IF c = "recalculated" THEN Some(0) ELSE NULL]
    IN  [db |-> Append(db, row), lastrowid |-> row.id, raised |-> NoError]

\* INSERT INTO usage_snapshots (DOMAIN cols) VALUES (cols): the columns not
\* named take their DEFAULT, id is the AUTOINCREMENT key (rows are never
\* deleted, so it is one more than the number of rows), and a NULL in a NOT NULL
\* column fails the statement with IntegrityError.
SqlInsert(db, cols) ==
    LET row == [c \in Columns |->
                  IF c = "id" THEN Some(Len(db) + 1)
                  ELSE IF c \in DOMAIN cols THEN cols[c]
                  ELSE ColumnDefault(c)]
    IN  IF \E c \in NotNullColumns : row[c] = NULL
        THEN [db |-> db, lastrowid |-> NULL, raised |-> "IntegrityError"]
        ELSE [db |-> Append(db, row), lastrowid |-> row.id, raised |-> NoError]

\* Mutant: the statement has no WHERE clause.
SqlUpdateEveryRow(db, sets, snapshot_id) ==
    [i \in 1..Len(db) |->
        [c \in Columns |-> IF c \in DOMAIN sets THEN sets[c] ELSE db[i][c]]]

\* UPDATE usage_snapshots SET (sets) WHERE id = snapshot_id: only the columns
\* the statement names change, in the rows whose id matches.
SqlUpdate(db, sets, snapshot_id) ==
    [i \in 1..Len(db) |->
        IF db[i].id = snapshot_id
        THEN [c \in Columns |-> IF c \in DOMAIN sets THEN sets[c] ELSE db[i][c]]
        ELSE db[i]]

\* The columns of session_details that insert_session names, in the order of
\* the statement; id, created_at and updated_at complete the row.
SessionColumns ==
    <<"session_id", "start_time", "end_time", "total_messages", "total_tokens",
      "input_tokens", "output_tokens", "model_used", "has_plans", "has_todos",
      "plan_count", "todo_count">>

SessionFields == Range(SessionColumns)

SessionNotNullColumns == {"session_id", "start_time"}

\* The session_details table of init_db: no row, no id given out yet.
NoSessions == [rows |-> <<>>, sqlite_sequence |-> 0]

\* INSERT OR REPLACE INTO session_details (SessionColumns, updated_at) VALUES
\* (cols, CURRENT_TIMESTAMP): a NULL in a NOT NULL column without DEFAULT fails
\* the statement with IntegrityError; the row that holds the same session_id
\* (UNIQUE) is deleted; the row inserted takes the next AUTOINCREMENT id and,
\* for created_at, its DEFAULT CURRENT_TIMESTAMP.
SqlInsertOrReplace(db, cols, current_timestamp) ==
    LET row == [c \in {"id", "created_at", "updated_at"} \cup SessionFields |->
                  IF c = "id" THEN Some(db.sqlite_sequence + 1)
                  ELSE IF c \in {"created_at", "updated_at"} THEN Some(current_timestamp)
                  ELSE cols[c]]
    IN  IF \E c \in SessionNotNullColumns : row[c] = NULL
        THEN [db |-> db, raised |-> "IntegrityError"]
        ELSE [db |-> [rows |-> Append(SelectSeq(db.rows,
                                        LAMBDA old : old.session_id # row.session_id),
                                      row),
                      sqlite_sequence |-> db.sqlite_sequence + 1],
              raised |-> NoError]

\* Mutant: INSERT OR IGNORE, the row that holds the session_id is kept.
SqlInsertOrIgnore(db, cols, current_timestamp) ==
    IF \E i \in 1..Len(db.rows) : db.rows[i].session_id = cols.session_id
    THEN [db |-> db, raised |-> NoError]
    ELSE SqlInsertOrReplace(db, cols, current_timestamp)

\* get_db(): commit when the body ends normally, roll back and re-raise when it
\* raises.  `before` is the table when the connection was opened, `r` the
\* outcome of the body.
get_db(before, r) ==
    IF r.raised = NoError THEN r ELSE [r EXCEPT !.db = before]

\* -------------------------------------------------- validate_session_ids
\* An entry that is not a str (isinstance(session_id, str) fails).
NotAString == <<"<int>">>

RECURSIVE LStrip(_)
LStrip(s) == IF s # <<>> /\ IsSpace(Head(s)) THEN LStrip(Tail(s)) ELSE s

RECURSIVE RStrip(_)
RStrip(s) ==
    IF s # <<>> /\ IsSpace(s[Len(s)]) THEN RStrip(SubSeq(s, 1, Len(s) - 1)) ELSE s

\* str.strip()
Strip(s) == RStrip(LStrip(s))

\* The longest session id validate_session_ids accepts.
MaxSessionIdLen == 100

\* Mutant: a session id of the greatest length is rejected (>= for >).
RECURSIVE validate_loop_length_off_by_one(_, _)
validate_loop_length_off_by_one(session_ids, validated) ==
    IF session_ids = <<>> THEN [raised |-> NoError, value |-> validated]
    ELSE LET session_id == Head(session_ids)
         IN  IF session_id = NotAString
                 THEN [raised |-> "ValueError", value |-> <<>>]
             ELSE IF session_id = <<>> \/ Strip(session_id) = <<>>
                 THEN [raised |-> "ValueError", value |-> <<>>]
             ELSE IF Len(session_id) >= MaxSessionIdLen
                 THEN [raised |-> "ValueError", value |-> <<>>]
             ELSE IF ~ \A i \in 1..Len(session_id) :
                         IsAlnum(session_id[i]) \/ session_id[i] \in {"-", "_"}
                 THEN [raised |-> "ValueError", value |-> <<>>]
             ELSE validate_loop_length_off_by_one(Tail(session_ids),
                                                  Append(validated, Strip(session_id)))

\* The loop of validate_session_ids over the entries left, `validated` being
\* the list built so far; the first bad entry raises ValueError.
RECURSIVE validate_loop(_, _)
validate_loop(session_ids, validated) ==
    IF session_ids = <<>> THEN [raised |-> NoError, value |-> validated]
    ELSE LET session_id == Head(session_ids)
         IN  IF session_id = NotAString
                 THEN [raised |-> "ValueError", value |-> <<>>]
             ELSE IF session_id = <<>> \/ Strip(session_id) = <<>>
                 THEN [raised |-> "ValueError", value |-> <<>>]
             ELSE IF Len(session_id) > MaxSessionIdLen
                 THEN [raised |-> "ValueError", value |-> <<>>]
             ELSE IF ~ \A i \in 1..Len(session_id) :
                         IsAlnum(session_id[i]) \/ session_id[i] \in {"-", "_"}
                 THEN [raised |-> "ValueError", value |-> <<>>]
             ELSE validate_loop(Tail(session_ids), Append(validated, Strip(session_id)))

\* Mutant: the validated ids are made unique, a repeated id being dropped.
validate_session_ids_unique(session_ids) ==
    LET v == validate_loop(session_ids, <<>>)
        keep == {i \in 1..Len(v.value) : \A j \in 1..(i - 1) : v.value[j] # v.value[i]}
    IN  [raised |-> v.raised,
         value |-> [k \in 1..Cardinality(keep) |->
                      v.value[CHOOSE i \in keep : Cardinality({j \in keep : j < i}) = k - 1]]]

validate_session_ids(session_ids) ==
    IF session_ids = <<>> THEN [raised |-> NoError, value |-> <<>>]
    ELSE validate_loop(session_ids, <<>>)

\* ------------------------------------------------------------------ JSON
HexDigit(d) ==
    CASE d = 0 -> "0" [] d = 1 -> "1" [] d = 2 -> "2" [] d = 5 -> "5"
      [] d = 9 -> "9" [] d = 10 -> "a" [] d = 14 -> "e"

HexValue(c) ==
    CASE c = "0" -> 0 [] c = "1" -> 1 [] c = "2" -> 2 [] c = "5" -> 5
      [] c = "9" -> 9 [] c = "a" -> 10 [] c = "e" -> 14

\* json.dumps of one character of a str (ensure_ascii: a character beyond ASCII
\* becomes \uXXXX).
json_escape(c) ==
    IF c = "\"" THEN <<"\\", "\"">>
    ELSE IF c = "\\" THEN <<"\\", "\\">>
    ELSE IF Ord(c) > 127
        THEN <<"\\", "u", HexDigit(Ord(c) \div 4096), HexDigit((Ord(c) \div 256) % 16),
               HexDigit((Ord(c) \div 16) % 16), HexDigit(Ord(c) % 16)>>
    ELSE <<c>>

RECURSIVE json_dumps_str(_)
json_dumps_str(s) ==
    IF s = <<>> THEN <<>> ELSE json_escape(Head(s)) \o json_dumps_str(Tail(s))

RECURSIVE json_dumps_items(_)
json_dumps_items(l) ==
    IF l = <<>> THEN <<>>
    ELSE <<"\"">> \o json_dumps_str(Head(l)) \o <<"\"">>
         \o (IF Tail(l) = <<>> THEN <<>> ELSE <<",", " ">> \o json_dumps_items(Tail(l)))

\* json.dumps(list of str): the JSON text, items separated by ", ".
json_dumps(l) == <<"[">> \o json_dumps_items(l) \o <<"]">>

\* The str whose text starts at t[i], after its opening quote.
RECURSIVE json_loads_str(_, _, _)
json_loads_str(t, i, acc) ==
    IF t[i] = "\"" THEN [value |-> acc, next |-> i + 1]
    ELSE IF t[i] = "\\"
        THEN IF t[i + 1] = "u"
             THEN json_loads_str(t, i + 6,
                      Append(acc, Chr(4096 * HexValue(t[i + 2]) + 256 * HexValue(t[i + 3])
                                      + 16 * HexValue(t[i + 4]) + HexValue(t[i + 5]))))
             ELSE json_loads_str(t, i + 2, Append(acc, t[i + 1]))
    ELSE json_loads_str(t, i + 1, Append(acc, t[i]))

\* The items of an array from t[i], the opening quote of an item.
RECURSIVE json_loads_items(_, _, _)
json_loads_items(t, i, acc) ==
    LET item == json_loads_str(t, i + 1, <<>>)
    IN  IF t[item.next] = ","
        THEN json_loads_items(t, item.next + 2, Append(acc, item.value))
        ELSE Append(acc, item.value)

\* json.loads of the text of an array of strings, as the readers of
\* active_sessions apply it to the column.
json_loads(t) == IF t = <<"[", "]">> THEN <<>> ELSE json_loads_items(t, 2, <<>>)

\* ------------------------------------------------------ store operations
\* Every operation is a function of the table and its arguments, giving the
\* table afterwards, the value returned (NULL for None), the exception raised
\* (NoError for a normal return), whether a warning was printed and whether a
\* statement was sent to the database.

\* Mutant: insert_snapshot lets the ValueError of the validation escape.
insert_snapshot_fail_fast(db, a) ==
    LET v == IF a.active_sessions # NULL
             THEN validate_session_ids(a.active_sessions[1])
             ELSE [raised |-> NoError, value |-> <<>>]
        cols == [c \in RawFields \cup DeltaFields \cup {"active_sessions"} |->
                    IF c # "active_sessions" THEN a[c]
                    ELSE IF a.active_sessions # NULL THEN Some(json_dumps(v.value))
                    ELSE NULL]
        r == get_db(db, SqlInsert(db, cols))
    IN  IF v.raised # NoError
        THEN [db |-> db, result |-> NULL, raised |-> v.raised, warned |-> FALSE,
              executed |-> FALSE]
        ELSE [db |-> r.db, result |-> r.lastrowid, raised |-> r.raised,
              warned |-> FALSE, executed |-> TRUE]

\* insert_snapshot: active_sessions is validated and dumped; a ValueError is
\* caught, a warning printed and NULL stored; recalculated is not named by the
\* INSERT and takes its DEFAULT.
insert_snapshot(db, a) ==
    LET v == IF a.active_sessions # NULL
             THEN validate_session_ids(a.active_sessions[1])
             ELSE [raised |-> NoError, value |-> <<>>]
        active_sessions_json ==
             IF a.active_sessions # NULL /\ v.raised = NoError
             THEN Some(json_dumps(v.value))
             ELSE NULL
        cols == [c \in RawFields \cup DeltaFields \cup {"active_sessions"} |->
                    IF c = "active_sessions" THEN active_sessions_json ELSE a[c]]
        r == get_db(db, SqlInsert(db, cols))
    IN  [db |-> r.db, result |-> r.lastrowid, raised |-> r.raised,
         warned |-> v.raised # NoError, executed |-> TRUE]

\* Mutant: the tick writes 0, not NULL, into the delta/total columns.
insert_snapshot_tick_zeroes(db, a) ==
    LET cols == [c \in RawFields \cup DeltaFields \cup {"active_sessions", "recalculated"} |->
                    IF c \in RawFields THEN a[c]
                    ELSE IF c \in DeltaFields \cup {"recalculated"} THEN Some(0)
                    ELSE NULL]
        r == get_db(db, SqlInsert(db, cols))
    IN  [db |-> r.db, result |-> r.lastrowid, raised |-> r.raised, warned |-> FALSE,
         executed |-> TRUE]

\* insert_snapshot_tick (Phase 1): the raw reading, the eight delta/total
\* columns and active_sessions NULL, recalculated 0.
insert_snapshot_tick(db, a) ==
    LET cols == [c \in RawFields \cup DeltaFields \cup {"active_sessions", "recalculated"} |->
                    IF c \in RawFields THEN a[c]
                    ELSE IF c = "recalculated" THEN Some(0)
                    ELSE NULL]
        r == get_db(db, SqlInsert(db, cols))
    IN  [db |-> r.db, result |-> r.lastrowid, raised |-> r.raised, warned |-> FALSE,
         executed |-> TRUE]

\* update_snapshot_calculations, lines 535-540: active_sessions is validated
\* and dumped; a ValueError is not caught here.
update_validate(a) ==
    IF a.active_sessions # NULL
    THEN LET v == validate_session_ids(a.active_sessions[1])
         IN  [raised |-> v.raised,
              json |-> IF v.raised = NoError THEN Some(json_dumps(v.value)) ELSE NULL]
    ELSE [raised |-> NoError, json |-> NULL]

\* Mutant: an argument is taken as given when it is truthy, so 0 is skipped.
update_fields_truthy(a, active_sessions_json) ==
    SelectSeq(DeltaColumns, LAMBDA c : a[c] # NULL /\ a[c] # Some(0))
        \o (IF active_sessions_json # NULL THEN <<"active_sessions">> ELSE <<>>)

\* Mutant: the SET clause names every column, whether its argument is None
\* or not.
update_fields_every_column(a, active_sessions_json) ==
    DeltaColumns \o <<"active_sessions">>

\* update_snapshot_calculations, lines 542-580: the columns of the SET clause,
\* one for each argument that is not None, in the order of the statement.
update_fields(a, active_sessions_json) ==
    SelectSeq(DeltaColumns, LAMBDA c : a[c] # NULL)
        \o (IF active_sessions_json # NULL THEN <<"active_sessions">> ELSE <<>>)

\* The value bound to each column of the SET clause (params).
update_params(a, active_sessions_json) ==
    [c \in Range(update_fields(a, active_sessions_json)) |->
        IF c = "active_sessions" THEN active_sessions_json ELSE a[c]]

\* Mutant: no early return, so a call without fields sends "UPDATE ... SET
\* WHERE id = ?", which the database rejects.
update_snapshot_calculations_no_early_return(db, snapshot_id, a) ==
    LET v == update_validate(a)
    IN  IF v.raised # NoError
        THEN [db |-> db, result |-> NULL, raised |-> v.raised, warned |-> FALSE,
              executed |-> FALSE]
        ELSE LET r == get_db(db,
                        IF update_fields(a, v.json) = <<>>
                        THEN [db |-> db, raised |-> "OperationalError"]
                        ELSE [db |-> SqlUpdate(db, update_params(a, v.json), snapshot_id),
                              raised |-> NoError])
             IN  [db |-> r.db, result |-> NULL, raised |-> r.raised, warned |-> FALSE,
                  executed |-> TRUE]

\* update_snapshot_calculations (Phase 2).
update_snapshot_calculations(db, snapshot_id, a) ==
    LET v == update_validate(a)
    IN  IF v.raised # NoError
        THEN [db |-> db, result |-> NULL, raised |-> v.raised, warned |-> FALSE,
              executed |-> FALSE]
        ELSE IF update_fields(a, v.json) = <<>>
        THEN [db |-> db, result |-> NULL, raised |-> NoError, warned |-> FALSE,
              executed |-> FALSE]
        ELSE LET r == get_db(db, [db |-> SqlUpdate(db, update_params(a, v.json), snapshot_id),
                                  raised |-> NoError])
             IN  [db |-> r.db, result |-> NULL, raised |-> r.raised, warned |-> FALSE,
                  executed |-> TRUE]

\* get_snapshot_by_id: the row with that id, or None.
get_snapshot_by_id(db, snapshot_id) ==
    IF \E i \in 1..Len(db) : db[i].id = snapshot_id
    THEN Some(db[CHOOSE i \in 1..Len(db) : db[i].id = snapshot_id])
    ELSE NULL

\* int(has_plans), int(has_todos): False is 0, True is 1.
int_of_bool(b) == IF b THEN 1 ELSE 0

\* The values insert_session binds to the statement.
insert_session_params(a) ==
    [c \in SessionFields |->
        IF c \in {"has_plans", "has_todos"} THEN Some(int_of_bool(a[c])) ELSE a[c]]

\* Mutant: the statement is INSERT OR IGNORE.
insert_session_or_ignore(db, a, current_timestamp) ==
    LET r == get_db(db, SqlInsertOrIgnore(db, insert_session_params(a),
                                          current_timestamp))
    IN  [db |-> r.db, result |-> NULL, raised |-> r.raised, warned |-> FALSE,
         executed |-> TRUE]

\* insert_session: one INSERT OR REPLACE under get_db().
insert_session(db, a, current_timestamp) ==
    LET r == get_db(db, SqlInsertOrReplace(db, insert_session_params(a),
                                           current_timestamp))
    IN  [db |-> r.db, result |-> NULL, raised |-> r.raised, warned |-> FALSE,
         executed |-> TRUE]

\* get_session_details: the row of that session_id (fetchone), or None.
get_session_details(db, session_id) ==
    IF \E i \in 1..Len(db.rows) : db.rows[i].session_id = Some(session_id)
    THEN Some(db.rows[CHOOSE i \in 1..Len(db.rows) :
                        db.rows[i].session_id = Some(session_id)])
    ELSE NULL

\* ORDER BY timestamp DESC: SQLite leaves the order of rows with equal
\* timestamps open, so a query has a set of possible results.
IsTimestampDesc(rows) ==
    \A i \in 1..Len(rows) - 1 : TextLeq(rows[i + 1].timestamp[1], rows[i].timestamp[1])

OrderByTimestampDesc(rowset) ==
    {rows \in [1..Cardinality(rowset) -> rowset] :
        /\ \A i, j \in 1..Cardinality(rowset) : i # j => rows[i] # rows[j]
        /\ IsTimestampDesc(rows)}

\* Mutant: the upper bound of the range is exclusive.
get_snapshots_in_range_exclusive(db, start_time, end_time) ==
    OrderByTimestampDesc({r \in Range(db) :
        /\ TextLeq(start_time, r.timestamp[1])
        /\ TextLess(r.timestamp[1], end_time)})

\* get_snapshots_in_range: WHERE timestamp >= start AND timestamp <= end
\* ORDER BY timestamp DESC; the possible lists returned.
get_snapshots_in_range(db, start_time, end_time) ==
    OrderByTimestampDesc({r \in Range(db) :
        /\ TextLeq(start_time, r.timestamp[1])
        /\ TextLeq(r.timestamp[1], end_time)})

\* Mutant: the latest snapshot is the one inserted last (ORDER BY id DESC).
get_latest_snapshot_by_id(db) ==
    IF db = <<>> THEN {NULL} ELSE {Some(db[Len(db)])}

\* get_latest_snapshot: ORDER BY timestamp DESC LIMIT 1; the possible results,
\* None when the table is empty.
get_latest_snapshot(db) ==
    IF db = <<>> THEN {NULL}
    ELSE {Some(rows[1]) : rows \in OrderByTimestampDesc(Range(db))}

\* ------------------------------------------------------- argument values
\* Timestamps, with the prefix they share ("2025-11-12T10:00:0") left out:
\* ...:01Z, ...:01.5Z and ...:02Z, as datetime.isoformat() + 'Z' writes them.
Ts1 == <<"1", "Z">>

Ts1h == <<"1", ".", "5", "Z">>

Ts2 == <<"2", "Z">>

TsSet == {Ts1, Ts1h, Ts2}

\* The raw arguments of an insert: a reading taken at `ts` (NULL or Some), the
\* optional arguments given or left None.
RawReading(ts, used, optional) ==
    [timestamp |-> ts,
     five_hour_used |-> used, five_hour_limit |-> Some(100),
     seven_day_used |-> Some(45), seven_day_limit |-> Some(100),
     five_hour_pct |-> IF optional THEN Some(755) ELSE NULL,
     seven_day_pct |-> IF optional THEN Some(450) ELSE NULL,
     five_hour_reset |-> IF optional THEN Some(Ts2) ELSE NULL,
     seven_day_reset |-> IF optional THEN Some(Ts1) ELSE NULL]

\* Delta/total arguments: the fields in S are given the value v, the others
\* are None.
Calculations(S, v) == [c \in DeltaFields |-> IF c \in S THEN Some(v) ELSE NULL]

\* The arguments of insert_snapshot: raw, delta/total and active_sessions.
SnapshotArgs(raw, calc, sessions) ==
    [c \in RawFields \cup DeltaFields \cup {"active_sessions"} |->
        IF c \in RawFields THEN raw[c]
        ELSE IF c \in DeltaFields THEN calc[c]
        ELSE sessions]

\* The arguments of update_snapshot_calculations besides snapshot_id.
UpdateArgs(calc, sessions) ==
    [c \in DeltaFields \cup {"active_sessions"} |->
        IF c \in DeltaFields THEN calc[c] ELSE sessions]

\* Session ids: "s-1", "a_2", one with a letter beyond ASCII, and bad ones.
SidS1 == <<"s", "-", "1">>

SidA2 == <<"a", "_", "2">>

SidE9 == <<"U+00E9", "9">>

SidAt == <<"s", "@", "1">>

SidBlank == <<" ">>

SidOfLen(n) == [i \in 1..n |-> "x"]

\* The length of a UUID, the usual session id.
UuidLen == 36

\* ------------------------------------------- module state at import time
\* app.py, lines 32-42: the cache is empty and stamped 0, no reading has been
\* seen.  The process starts ProcessStart seconds into the epoch of time.time().
cache_duration == 60

ProcessStart == 2 * cache_duration

NoCycle ==
    [hit |-> FALSE, lookups |-> 0, requests |-> 0, should_snapshot |-> FALSE,
     inserts |-> 0, reading |-> NULL, result |-> NULL, raised |-> NoError]

PollerAtImport ==
    /\ usage_cache = [data |-> NULL, timestamp |-> 0]
    /\ previous_usage = [five_hour_used |-> NULL, seven_day_used |-> NULL]
    /\ clock = ProcessStart
    /\ cycle = NoCycle

\* git_manager at import: no lock in the registry, the guard free, no caller.
RegistryAtImport ==
    /\ _repo_locks = <<>>
    /\ registry_guard = NULL
    /\ lock_objects = <<>>
    /\ acquirers = <<>>
    /\ execution_order = <<>>

\* app.py at import (line 27) and the work queue: nothing is loaded, nothing
\* is queued and the worker waits.
NoWorker == [pc |-> "get", item |-> NULL, taken |-> <<>>, processed_items |-> <<>>,
             error_count |-> 0]

EmptyQueue == [queue |-> <<>>, unfinished_tasks |-> 0, put |-> <<>>]

WatcherAtImport ==
    /\ latest_entries = 0
    /\ reloads = <<>>
    /\ file_processing_queue = EmptyQueue
    /\ worker = NoWorker

\* ------------------------------------------------------------- the calls
Call(op, snapshot_id, a, r) ==
    [op |-> op, snapshot_id |-> snapshot_id, a |-> a,
     result |-> r.result, raised |-> r.raised, warned |-> r.warned,
     executed |-> r.executed]

NoCall == [op |-> "none", snapshot_id |-> NULL, a |-> <<>>,
           result |-> NULL, raised |-> NoError, warned |-> FALSE, executed |-> FALSE]

\* A call on the store touches neither the pollers nor the lock registry.
StoreOnly == UNCHANGED <<session_details, pollerVars, api_poller, registryVars,
    watcherVars>>

Sequential == UNCHANGED <<thr, writer>> /\ StoreOnly

Tick(a) ==
    /\ Len(store) < MaxRows
    /\ LET r == insert_snapshot_tick(store, a)
       IN  /\ store' = r.db
           /\ last' = Call("insert_snapshot_tick", NULL, a, r)
    /\ Sequential

Snapshot(a) ==
    /\ Len(store) < MaxRows
    /\ LET r == insert_snapshot(store, a)
       IN  /\ store' = r.db
           /\ last' = Call("insert_snapshot", NULL, a, r)
    /\ Sequential

Update(snapshot_id, a) ==
    /\ LET r == update_snapshot_calculations(store, snapshot_id, a)
       IN  /\ store' = r.db
           /\ last' = Call("update_snapshot_calculations", snapshot_id, a, r)
    /\ Sequential

InitSequential ==
    /\ store = <<>>
    /\ last = NoCall
    /\ thr = <<>>
    /\ writer = NULL
    /\ session_details = NoSessions
    /\ WatcherAtImport
    /\ PollerAtImport
    /\ api_poller = NULL
    /\ RegistryAtImport

\* ------------------------------------------ Spec: inserts and the queries
TickArgs ==
    {RawReading(ts, used, optional) :
        ts \in {Some(t) : t \in TsSet} \cup {NULL},
        used \in {Some(75), Some(0)},
        optional \in BOOLEAN}

LegacyArgs ==
    {SnapshotArgs(RawReading(Some(ts), Some(75), TRUE), calc, NULL) :
        ts \in TsSet,
        calc \in {Calculations({}, 0), Calculations(DeltaFields, 7),
                  Calculations(FiveHourFields, 0)}}

Init == InitSequential

InsertTick == \E a \in TickArgs : Tick(a)

InsertSnapshot == \E a \in LegacyArgs : Snapshot(a)

Next == InsertTick \/ InsertSnapshot

Spec == Init /\ [][Next]_vars

\* ------------------------------ SpecUpdate: the two phases, one caller
\* Phase 1 of a reading without the optional arguments, and a legacy insert
\* that knows every field.
TickArgsU == {RawReading(Some(Ts1), Some(75), FALSE)}

LegacyArgsU ==
    {SnapshotArgs(RawReading(Some(Ts2), Some(75), TRUE), Calculations(DeltaFields, 7), NULL)}

\* Phase 2 calls: no field; the five-hour fields; one seven-day field, given 0.
UpdateArgsU ==
    {UpdateArgs(Calculations({}, 0), NULL),
     UpdateArgs(Calculations(FiveHourFields, 1000), NULL),
     UpdateArgs(Calculations({"seven_day_tokens_consumed"}, 0), NULL)}

\* The ids a caller may hold: those of the rows, and ones that name no row yet.
SnapshotIds == {Some(i) : i \in 1..MaxRows}

InsertTickU == \E a \in TickArgsU : Tick(a)

InsertSnapshotU == \E a \in LegacyArgsU : Snapshot(a)

UpdateCalculations == \E snapshot_id \in SnapshotIds, a \in UpdateArgsU : Update(snapshot_id, a)

NextUpdate == InsertTickU \/ InsertSnapshotU \/ UpdateCalculations

SpecUpdate == Init /\ [][NextUpdate]_vars

\* --------------------------- SpecSessions: active_sessions, one caller
ValidSessionLists == {<<>>, <<SidE9, SidS1, SidS1>>}

InvalidSessionLists == {<<SidAt>>, <<SidS1, <<>>>>}

LegacyArgsS ==
    {SnapshotArgs(RawReading(Some(Ts2), Some(75), TRUE), Calculations(DeltaFields, 7), sessions) :
        sessions \in {Some(l) : l \in ValidSessionLists \cup InvalidSessionLists} \cup {NULL}}

UpdateArgsS ==
    {UpdateArgs(calc, Some(l)) :
        calc \in {Calculations({}, 0), Calculations({"five_hour_tokens_consumed"}, 1000)},
        l \in {<<SidS1>>, <<SidAt>>}}

InsertSnapshotS == \E a \in LegacyArgsS : Snapshot(a)

UpdateSessions == \E snapshot_id \in SnapshotIds, a \in UpdateArgsS : Update(snapshot_id, a)

NextSessions == InsertTickU \/ InsertSnapshotS \/ UpdateSessions

SpecSessions == Init /\ [][NextSessions]_vars

\* ------------- SpecHistory: every insert and every update, one caller
\* The inserts of SpecSessions and the updates of SpecUpdate together: rows
\* with and without delta/total fields and active_sessions, updated with some
\* of the fields and without active_sessions, on ids that name a row and ids
\* that name none.
NextHistory == InsertTickU \/ InsertSnapshotS \/ UpdateCalculations

SpecHistory == Init /\ [][NextHistory]_vars

\* ---------------------- SpecValidate: validate_session_ids on its own
\* The entries of test_database.py 456-488 and the edges of each test of the
\* loop: a non-string, the empty and the blank string, ids with a hyphen, an
\* underscore, a letter beyond ASCII, a forbidden character, a space in front,
\* and ids of the greatest length and one more.
SidUnderscore == <<"_", "s", "1">>

SidLeadingSpace == <<" ", "s", "1">>

SessionIdEntries ==
    {NotAString, <<>>, SidBlank, SidS1, SidA2, SidE9, SidAt, SidUnderscore,
     SidLeadingSpace, SidOfLen(MaxSessionIdLen), SidOfLen(MaxSessionIdLen + 1)}

SessionIdLists == UNION {[1..n -> SessionIdEntries] : n \in 0..MaxListLen}

\* A caller holds a list and has not yet called.
Holding(session_ids) ==
    [op |-> "holding", snapshot_id |-> NULL, a |-> session_ids, result |-> NULL,
     raised |-> NoError, warned |-> FALSE, executed |-> FALSE]

InitValidate ==
    /\ store = <<>>
    /\ last \in {Holding(session_ids) : session_ids \in SessionIdLists}
    /\ thr = <<>>
    /\ writer = NULL
    /\ session_details = NoSessions
    /\ WatcherAtImport
    /\ PollerAtImport
    /\ api_poller = NULL
    /\ RegistryAtImport

Validate(session_ids) ==
    /\ last = Holding(session_ids)
    /\ LET v == validate_session_ids(session_ids)
       IN  last' = [op |-> "validate_session_ids", snapshot_id |-> NULL,
                    a |-> session_ids,
                    result |-> IF v.raised = NoError THEN Some(v.value) ELSE NULL,
                    raised |-> v.raised, warned |-> FALSE, executed |-> FALSE]
    /\ UNCHANGED store
    /\ Sequential

ValidateSessionIds == \E session_ids \in SessionIdLists : Validate(session_ids)

NextValidate == ValidateSessionIds

SpecValidate == InitValidate /\ [][NextValidate]_vars

\* ----------------- SpecMisuse: calls with arguments a caller should not pass
\* insert_snapshot_tick with one of the required arguments None, or with all
\* of them, and update_snapshot_calculations with an id below 1.
TickArgsM ==
    {[RawReading(Some(Ts1), Some(75), optional) EXCEPT ![c] = NULL] :
        c \in NotNullColumns, optional \in BOOLEAN}
    \cup {RawReading(Some(ts), Some(75), FALSE) : ts \in TsSet}

NegativeIds == {Some(-1), Some(-2)}

InsertTickM == \E a \in TickArgsM : Tick(a)

UpdateNegative ==
    \E snapshot_id \in NegativeIds \cup {Some(1)}, a \in UpdateArgsU :
        Update(snapshot_id, a)

NextMisuse == InsertTickM \/ UpdateNegative

SpecMisuse == Init /\ [][NextMisuse]_vars

\* ------------------- SpecConcurrent: two callers of Phase 2 on one table
\* Each caller makes one call of update_snapshot_calculations, in the steps a
\* thread takes it: the validation and the SET clause (lines 535-584), the
\* UPDATE on a connection of its own (line 596), which takes the write lock of
\* the database file and is seen by no other connection, and the commit of
\* get_db (line 25), which publishes it and frees the lock.  A connection that
\* finds the lock taken waits, and raises "database is locked" when the wait
\* outlasts its timeout.
Callers == {"A", "B"}

\* The table the callers find: a Phase 1 row and a legacy row that knows every
\* field.
TableOfTwo ==
    insert_snapshot(
        insert_snapshot_tick(<<>>, RawReading(Some(Ts1), Some(75), FALSE)).db,
        SnapshotArgs(RawReading(Some(Ts2), Some(75), TRUE),
                     Calculations(DeltaFields, 7), Some(<<SidA2>>))).db

UpdateArgsC ==
    {UpdateArgs(Calculations(FiveHourFields, 1000), NULL),
     UpdateArgs(Calculations(SevenDayFields, 0), NULL),
     UpdateArgs(Calculations({"seven_day_tokens_consumed"}, 5000), Some(<<SidS1>>)),
     UpdateArgs(Calculations({}, 0), NULL),
     UpdateArgs(Calculations({"five_hour_tokens_total"}, 1), Some(<<SidAt>>))}

Idle == [pc |-> "idle", snapshot_id |-> NULL, a |-> <<>>, params |-> <<>>,
         before |-> <<>>, pending |-> <<>>]

InitConcurrent ==
    /\ store = TableOfTwo
    /\ last = NoCall
    /\ thr = [t \in Callers |-> Idle]
    /\ writer = NULL
    /\ session_details = NoSessions
    /\ WatcherAtImport
    /\ PollerAtImport
    /\ api_poller = NULL
    /\ RegistryAtImport

\* Lines 535-584: `before` records the committed table at the call, for the
\* claims only (the call reads nothing).
UpdateBegin(t, snapshot_id, a) ==
    /\ thr[t].pc = "idle"
    /\ LET v == update_validate(a)
           pc == IF v.raised # NoError THEN "raised"
                 ELSE IF update_fields(a, v.json) = <<>> THEN "done"
                 ELSE "ready"
       IN  thr' = [thr EXCEPT ![t] =
                      [pc |-> pc, snapshot_id |-> snapshot_id, a |-> a,
                       params |-> IF pc = "ready" THEN update_params(a, v.json) ELSE <<>>,
                       before |-> store, pending |-> <<>>]]
    /\ UNCHANGED <<store, last, writer>>
    /\ StoreOnly

\* Mutant: the caller rewrites the row from the copy it found at the call.
UpdateStatementOnCopy(t) == SqlUpdate(thr[t].before, thr[t].params, thr[t].snapshot_id)

\* The table as the UPDATE of caller t leaves it, on t's connection.
UpdateStatement(t) == SqlUpdate(store, thr[t].params, thr[t].snapshot_id)

\* Line 596, the write lock being free.
UpdateExecute(t) ==
    /\ thr[t].pc = "ready"
    /\ writer = NULL
    /\ writer' = Some(t)
    /\ thr' = [thr EXCEPT ![t].pc = "executed", ![t].pending = UpdateStatement(t)]
    /\ UNCHANGED <<store, last>>
    /\ StoreOnly

\* Line 596, the write lock held by another connection for longer than the
\* timeout of sqlite3.connect: OperationalError, re-raised by get_db.
UpdateLocked(t) ==
    /\ thr[t].pc = "ready"
    /\ writer # NULL
    /\ thr' = [thr EXCEPT ![t].pc = "raised"]
    /\ UNCHANGED <<store, last, writer>>
    /\ StoreOnly

\* get_db, line 25: conn.commit().
UpdateCommit(t) ==
    /\ thr[t].pc = "executed"
    /\ writer = Some(t)
    /\ store' = thr[t].pending
    /\ writer' = NULL
    /\ thr' = [thr EXCEPT ![t].pc = "done"]
    /\ UNCHANGED last
    /\ StoreOnly

CallerBegins ==
    \E t \in Callers, snapshot_id \in {Some(1), Some(2)}, a \in UpdateArgsC :
        UpdateBegin(t, snapshot_id, a)

CallerExecutes == \E t \in Callers : UpdateExecute(t)

CallerLocked == \E t \in Callers : UpdateLocked(t)

CallerCommits == \E t \in Callers : UpdateCommit(t)

NextConcurrent == CallerBegins \/ CallerExecutes \/ CallerLocked \/ CallerCommits

SpecConcurrent == InitConcurrent /\ [][NextConcurrent]_vars

\* ------------- SpecReadWrite: a reader beside the callers of Phase 2
\* Mutant: a reading connection sees the token columns of the rows a writer
\* has not committed yet.
ReadViewTorn(db, uncommitted) ==
    [i \in 1..Len(db) |->
        [c \in Columns |->
            IF c \in {"five_hour_tokens_consumed", "seven_day_tokens_consumed"}
            THEN uncommitted[i][c] ELSE db[i][c]]]

\* What a reading connection sees while another connection holds changes it
\* has not committed: the committed table.
ReadView(db, uncommitted) == db

\* get_snapshot_by_id on a connection of its own, at any moment of the
\* callers' updates.
ReadSnapshot(snapshot_id) ==
    /\ LET view == IF writer = NULL THEN store
                   ELSE ReadView(store, thr[writer[1]].pending)
       IN  last' = Call("get_snapshot_by_id", snapshot_id, <<>>,
                        [result |-> get_snapshot_by_id(view, snapshot_id),
                         raised |-> NoError, warned |-> FALSE, executed |-> TRUE])
    /\ UNCHANGED <<store, thr, writer>>
    /\ StoreOnly

ReaderReads == \E snapshot_id \in {Some(1), Some(2)} : ReadSnapshot(snapshot_id)

NextReadWrite ==
    \/ CallerBegins
    \/ CallerExecutes
    \/ CallerLocked
    \/ CallerCommits
    \/ ReaderReads

SpecReadWrite == InitConcurrent /\ [][NextReadWrite]_vars

\* --------------- SpecInserts: concurrent callers of insert_snapshot
\* Three threads insert MaxInserts snapshots each, every thread with arguments
\* of its own.  A call runs in the steps a thread takes it: the call, the
\* INSERT on a connection of its own, which takes the write lock of the
\* database file, and the commit of get_db, which publishes the row and frees
\* the lock.  A connection that finds the lock taken waits for it: the
\* transactions here are one statement long, so no wait lasts the five seconds
\* of the timeout of sqlite3.connect.
InsertThreads == 0..2

ThreadArgs(thread_id) ==
    SnapshotArgs(RawReading(Some(<<Chr(Ord("0") + thread_id), "Z">>),
                            Some(50 + thread_id), FALSE),
                 Calculations({}, 0), NULL)

NotInserting == [pc |-> "idle", a |-> <<>>, pending |-> <<>>, results |-> <<>>,
                 errors |-> <<>>]

InitInserts ==
    /\ store = <<>>
    /\ last = NoCall
    /\ thr = [t \in InsertThreads |-> NotInserting]
    /\ writer = NULL
    /\ session_details = NoSessions
    /\ WatcherAtImport
    /\ PollerAtImport
    /\ api_poller = NULL
    /\ RegistryAtImport

\* The call, with the arguments of the thread.
SnapshotBegin(t) ==
    /\ thr[t].pc = "idle"
    /\ Len(thr[t].results) + Len(thr[t].errors) < MaxInserts
    /\ thr' = [thr EXCEPT ![t].pc = "ready", ![t].a = ThreadArgs(t)]
    /\ UNCHANGED <<store, last, writer>>
    /\ StoreOnly

\* Mutant: a connection writes whether or not another holds the write lock.
WriteLockIgnored(holder) == TRUE

\* A connection can write when no other connection holds the write lock.
WriteLockFree(holder) == holder = NULL

\* The outcome of the INSERT of thread t on its connection, the lock held.
InsertStatement(t) == insert_snapshot(store, thr[t].a)

\* cursor.execute(INSERT), the write lock being free.
SnapshotExecute(t) ==
    /\ thr[t].pc = "ready"
    /\ WriteLockFree(writer)
    /\ writer' = Some(t)
    /\ thr' = [thr EXCEPT ![t].pc = "executed", ![t].pending = InsertStatement(t)]
    /\ UNCHANGED <<store, last>>
    /\ StoreOnly

\* get_db: conn.commit(), or the rollback and the exception; the call returns
\* cursor.lastrowid.
SnapshotCommit(t) ==
    /\ thr[t].pc = "executed"
    /\ store' = thr[t].pending.db
    /\ writer' = NULL
    /\ thr' = [thr EXCEPT
                 ![t].pc = "idle",
                 ![t].pending = <<>>,
                 ![t].results = IF thr[t].pending.raised = NoError
                                THEN Append(@, thr[t].pending.result) ELSE @,
                 ![t].errors = IF thr[t].pending.raised = NoError
                               THEN @ ELSE Append(@, thr[t].pending.raised)]
    /\ UNCHANGED last
    /\ StoreOnly

InserterBegins == \E t \in InsertThreads : SnapshotBegin(t)

InserterExecutes == \E t \in InsertThreads : SnapshotExecute(t)

InserterCommits == \E t \in InsertThreads : SnapshotCommit(t)

NextInserts == InserterBegins \/ InserterExecutes \/ InserterCommits

SpecInserts == InitInserts /\ [][NextInserts]_vars

\* ---------------------------------------- app.py: the usage poller
\* A JSON object of the response is the function from its keys to its values.
EmptyDict == [k \in {} |-> NULL]

\* d.get(k): None when the key is absent.
dict_get(d, k) == IF k \in DOMAIN d THEN Some(d[k]) ELSE NULL

\* d.get(k, default).
dict_get_default(d, k, default) == IF k \in DOMAIN d THEN d[k] ELSE default

\* The truth value Python gives usage_cache['data']: None and the empty dict
\* are false.
Truthy(data) == data # NULL /\ data[1] # EmptyDict

\* int() of a utilization kept in tenths: the fraction is cut off, towards zero.
int(x) == IF x >= 0 THEN x \div 10 ELSE -((-x) \div 10)

\* {'error': ...}, the payload of a failed cycle.
TokenError == [error |-> "Failed to retrieve OAuth token from Keychain"]

StatusError(response) ==
    [error |-> "API returned status", status_code |-> response.status_code,
     details |-> response.text]

ExceptionError(e) == [error |-> e]

\* Mutant: a reading equal to the previous one counts as an increase.
should_snapshot_on_equal(previous, five_hour_util, seven_day_util) ==
    \/ (/\ previous.five_hour_used # NULL
        /\ five_hour_util >= previous.five_hour_used[1])
    \/ (/\ previous.seven_day_used # NULL
        /\ seven_day_util >= previous.seven_day_used[1])

\* Mutant: the first reading, with nothing to compare against, is snapshotted.
should_snapshot_first_reading(previous, five_hour_util, seven_day_util) ==
    \/ (previous.five_hour_used = NULL /\ previous.seven_day_used = NULL)
    \/ (/\ previous.five_hour_used # NULL
        /\ five_hour_util > previous.five_hour_used[1])
    \/ (/\ previous.seven_day_used # NULL
        /\ seven_day_util > previous.seven_day_used[1])

\* Lines 408-413: has usage increased since the last evaluated response?
should_snapshot(previous, five_hour_util, seven_day_util) ==
    IF previous.five_hour_used # NULL \/ previous.seven_day_used # NULL
    THEN IF \/ (/\ previous.five_hour_used # NULL
                /\ five_hour_util > previous.five_hour_used[1])
            \/ (/\ previous.seven_day_used # NULL
                /\ seven_day_util > previous.seven_day_used[1])
         THEN TRUE
         ELSE FALSE
    ELSE FALSE

\* Mutant: the integer percentages are rounded to the nearest, not cut off.
poller_snapshot_args_rounded(data, five_hour_util, seven_day_util, utcnow) ==
    LET five_hour_window == dict_get_default(data, "five_hour", EmptyDict)
        seven_day_window == dict_get_default(data, "seven_day", EmptyDict)
        raw == [timestamp |-> Some(utcnow),
                five_hour_used |-> Some((five_hour_util + 5) \div 10),
                five_hour_limit |-> Some(100),
                seven_day_used |-> Some((seven_day_util + 5) \div 10),
                seven_day_limit |-> Some(100),
                five_hour_pct |-> Some(five_hour_util),
                seven_day_pct |-> Some(seven_day_util),
                five_hour_reset |-> dict_get(five_hour_window, "resets_at"),
                seven_day_reset |-> dict_get(seven_day_window, "resets_at")]
    IN  SnapshotArgs(raw, Calculations({}, 0), NULL)

\* Lines 418-431: the arguments of the poller's insert_snapshot.
poller_snapshot_args(data, five_hour_util, seven_day_util, utcnow) ==
    LET five_hour_window == dict_get_default(data, "five_hour", EmptyDict)
        seven_day_window == dict_get_default(data, "seven_day", EmptyDict)
        raw == [timestamp |-> Some(utcnow),
                five_hour_used |-> Some(int(five_hour_util)),
                five_hour_limit |-> Some(100),
                seven_day_used |-> Some(int(seven_day_util)),
                seven_day_limit |-> Some(100),
                five_hour_pct |-> Some(five_hour_util),
                seven_day_pct |-> Some(seven_day_util),
                five_hour_reset |-> dict_get(five_hour_window, "resets_at"),
                seven_day_reset |-> dict_get(seven_day_window, "resets_at")]
    IN  SnapshotArgs(raw, Calculations({}, 0), NULL)

\* Mutant: the slots keep the highest value seen, a high-water mark.
update_previous_usage_high_water(previous, five_hour_util, seven_day_util) ==
    LET higher(slot, util) ==
            IF slot # NULL /\ slot[1] > util THEN slot ELSE Some(util)
    IN  [five_hour_used |-> higher(previous.five_hour_used, five_hour_util),
         seven_day_used |-> higher(previous.seven_day_used, seven_day_util)]

\* Lines 436-438: both slots take the new reading.
update_previous_usage(previous, five_hour_util, seven_day_util) ==
    [five_hour_used |-> Some(five_hour_util),
     seven_day_used |-> Some(seven_day_util)]

\* Mutant: an exception of insert_snapshot is not caught where it is raised; the
\* handler of the request catches it and the cycle returns {'error': ...}.
fetch_usage_data_200_insert_uncaught(db, cache, previous, current_time, response, utcnow, storage_error) ==
    LET data == response.json
        five_hour_util ==
            dict_get_default(dict_get_default(data, "five_hour", EmptyDict),
                             "utilization", 0)
        seven_day_util ==
            dict_get_default(dict_get_default(data, "seven_day", EmptyDict),
                             "utilization", 0)
        snapshot == should_snapshot(previous, five_hour_util, seven_day_util)
        r == IF storage_error = NoError
             THEN insert_snapshot(db, poller_snapshot_args(data, five_hour_util,
                                                           seven_day_util, utcnow))
             ELSE [db |-> db, raised |-> storage_error]
        saved == snapshot /\ r.raised = NoError
    IN  IF snapshot /\ r.raised # NoError
        THEN [db |-> db, cache |-> cache, previous |-> previous,
              cycle |-> [hit |-> FALSE, lookups |-> 1, requests |-> 1,
                         should_snapshot |-> snapshot, inserts |-> 1,
                         reading |-> Some(<<five_hour_util, seven_day_util>>),
                         result |-> Some(ExceptionError(r.raised)),
                         raised |-> NoError]]
        ELSE [db |-> IF saved THEN r.db ELSE db,
              cache |-> [data |-> Some(data), timestamp |-> current_time],
              previous |-> update_previous_usage(previous, five_hour_util,
                                                 seven_day_util),
              cycle |-> [hit |-> FALSE, lookups |-> 1, requests |-> 1,
                         should_snapshot |-> snapshot,
                         inserts |-> IF snapshot THEN 1 ELSE 0,
                         reading |-> Some(<<five_hour_util, seven_day_util>>),
                         result |-> Some(data), raised |-> NoError]]

\* Lines 401-443, the branch of a 200 response.  `storage_error` is the
\* exception the store raises when it cannot be written (NoError when it can):
\* insert_snapshot is called inside a try whose handler prints and goes on
\* (416-433).
fetch_usage_data_200_stored(db, cache, previous, current_time, response, utcnow, storage_error) ==
    LET data == response.json
        five_hour_util ==
            dict_get_default(dict_get_default(data, "five_hour", EmptyDict),
                             "utilization", 0)
        seven_day_util ==
            dict_get_default(dict_get_default(data, "seven_day", EmptyDict),
                             "utilization", 0)
        snapshot == should_snapshot(previous, five_hour_util, seven_day_util)
        r == IF storage_error = NoError
             THEN insert_snapshot(db, poller_snapshot_args(data, five_hour_util,
                                                           seven_day_util, utcnow))
             ELSE [db |-> db, raised |-> storage_error]
        saved == snapshot /\ r.raised = NoError
    IN  [db |-> IF saved THEN r.db ELSE db,
         cache |-> [data |-> Some(data), timestamp |-> current_time],
         previous |-> update_previous_usage(previous, five_hour_util,
                                            seven_day_util),
         cycle |-> [hit |-> FALSE, lookups |-> 1, requests |-> 1,
                    should_snapshot |-> snapshot,
                    inserts |-> IF snapshot THEN 1 ELSE 0,
                    reading |-> Some(<<five_hour_util, seven_day_util>>),
                    result |-> Some(data), raised |-> NoError]]

\* The branch of a 200 response with a store that can be written.
fetch_usage_data_200(db, cache, previous, current_time, response, utcnow) ==
    fetch_usage_data_200_stored(db, cache, previous, current_time, response, utcnow,
                                NoError)

\* Mutant: a failed cycle empties the cache.
fetch_usage_data_failed_clears_cache(db, cache, previous, lookups, requests, payload) ==
    [db |-> db, cache |-> [data |-> NULL, timestamp |-> 0], previous |-> previous,
     cycle |-> [hit |-> FALSE, lookups |-> lookups, requests |-> requests,
                should_snapshot |-> FALSE, inserts |-> 0,
                reading |-> NULL, result |-> Some(payload), raised |-> NoError]]

\* Mutant: a failed cycle forgets the previous reading.
fetch_usage_data_failed_resets_previous(db, cache, previous, lookups, requests, payload) ==
    [db |-> db, cache |-> cache,
     previous |-> [five_hour_used |-> NULL, seven_day_used |-> NULL],
     cycle |-> [hit |-> FALSE, lookups |-> lookups, requests |-> requests,
                should_snapshot |-> FALSE, inserts |-> 0,
                reading |-> NULL, result |-> Some(payload), raised |-> NoError]]

\* The returns of the failing branches (lines 385-387, 444-445, 447-448): the
\* payload is returned and nothing else is touched.
fetch_usage_data_failed(db, cache, previous, lookups, requests, payload) ==
    [db |-> db, cache |-> cache, previous |-> previous,
     cycle |-> [hit |-> FALSE, lookups |-> lookups, requests |-> requests,
                should_snapshot |-> FALSE, inserts |-> 0,
                reading |-> NULL, result |-> Some(payload), raised |-> NoError]]

\* fetch_usage_data (lines 375-448).  `token` is what get_oauth_token returns
\* (NULL for None), `response` what requests.get gives: a response, or the
\* exception it raises; `utcnow` is datetime.utcnow().isoformat() + 'Z'.
fetch_usage_data(db, cache, previous, current_time, token, response, utcnow) ==
    LET failed(lookups, requests, payload) ==
            fetch_usage_data_failed(db, cache, previous, lookups, requests, payload)
    IN  IF Truthy(cache.data) /\ current_time - cache.timestamp < cache_duration
        THEN [db |-> db, cache |-> cache, previous |-> previous,
              cycle |-> [hit |-> TRUE, lookups |-> 0, requests |-> 0,
                         should_snapshot |-> FALSE, inserts |-> 0,
                         reading |-> NULL, result |-> cache.data,
                         raised |-> NoError]]
        ELSE IF token = NULL \/ token[1] = ""
        THEN failed(1, 0, TokenError)
        ELSE IF "exception" \in DOMAIN response
        THEN failed(1, 1, ExceptionError(response.exception))
        ELSE IF response.status_code = 200
        THEN fetch_usage_data_200(db, cache, previous, current_time, response, utcnow)
        ELSE failed(1, 1, StatusError(response))

\* ----------------------------- SpecPoller: the poll cycles of one process
\* A poll cycle is one call of fetch_usage_data (get_usage, lines 451-455); what
\* the keychain, the usage API and the clocks give it is chosen here.
Window(utilization, resets_at) ==
    [utilization |-> utilization, resets_at |-> resets_at]

UsageBody(five_hour_util, seven_day_util) ==
    [five_hour |-> Window(five_hour_util, Ts2),
     seven_day |-> Window(seven_day_util, Ts1)]

\* Readings in tenths of a percent: (50, 30), (51, 30), (40, 30), (50, 31) and
\* (50.5, 30).
Readings == {<<500, 300>>, <<510, 300>>, <<400, 300>>, <<500, 310>>, <<505, 300>>}

Bodies == {UsageBody(u[1], u[2]) : u \in Readings} \cup {EmptyDict}

OkResponse(body) == [status_code |-> 200, json |-> body, text |-> "ok"]

Responses ==
    {OkResponse(body) : body \in Bodies}
    \cup {[status_code |-> 401, text |-> "unauthorized"],
          [status_code |-> 500, text |-> "server error"],
          [exception |-> "timed out"]}

Tokens == {NULL, Some(""), Some("token-1")}

ClockStep == cache_duration \div 2

MaxClock == ProcessStart + 2 * cache_duration

FetchUsageData(token, response, utcnow) ==
    LET r == fetch_usage_data(store, usage_cache, previous_usage, clock,
                              token, response, utcnow)
    IN  /\ Len(r.db) <= MaxRows
        /\ store' = r.db
        /\ usage_cache' = r.cache
        /\ previous_usage' = r.previous
        /\ cycle' = r.cycle
        /\ UNCHANGED <<clock, last, thr, writer, session_details, api_poller,
                       registryVars, watcherVars>>

TimePasses ==
    /\ clock + ClockStep <= MaxClock
    /\ clock' = clock + ClockStep
    /\ UNCHANGED <<storeVars, session_details, usage_cache, previous_usage, cycle,
                   api_poller, registryVars, watcherVars>>

PollCycle ==
    \E token \in Tokens, response \in Responses, utcnow \in {Ts1, Ts2} :
        FetchUsageData(token, response, utcnow)

NextPoller == PollCycle \/ TimePasses

SpecPoller == InitSequential /\ [][NextPoller]_vars

\* ---------------- SpecStorage: poll cycles on a store that may fail
\* A cycle that misses the cache, has a token and is answered 200, on a store
\* that can or cannot be written (sqlite3.OperationalError: the file is locked
\* or unreachable).
StorageErrors == {NoError, "OperationalError"}

FetchUsageDataStored(response, utcnow, storage_error) ==
    /\ ~ (Truthy(usage_cache.data) /\ clock - usage_cache.timestamp < cache_duration)
    /\ LET r == fetch_usage_data_200_stored(store, usage_cache, previous_usage, clock,
                                            response, utcnow, storage_error)
       IN  /\ Len(r.db) <= MaxRows
           /\ store' = r.db
           /\ usage_cache' = r.cache
           /\ previous_usage' = r.previous
           /\ cycle' = r.cycle
    /\ UNCHANGED <<clock, last, thr, writer, session_details, api_poller,
                   registryVars, watcherVars>>

PollCycleStored ==
    \E u \in Readings, utcnow \in {Ts1, Ts2}, storage_error \in StorageErrors :
        FetchUsageDataStored(OkResponse(UsageBody(u[1], u[2])), utcnow, storage_error)

NextStorage == PollCycleStored \/ TimePasses

SpecStorage == InitSequential /\ [][NextStorage]_vars

\* ------------------ SpecRestart: poll cycles and restarts of the process
\* An INTEGER column read back, in the tenths the utilizations are kept in.
number_of_int(n) == n * 10

\* main, lines 521-526: previous_usage is primed from the five_hour_used and
\* seven_day_used columns of the latest snapshot, when there is one.
main_previous_usage(latest_snapshot) ==
    IF latest_snapshot # NULL
    THEN [five_hour_used |-> Some(number_of_int(latest_snapshot[1].five_hour_used[1])),
          seven_day_used |-> Some(number_of_int(latest_snapshot[1].seven_day_used[1]))]
    ELSE [five_hour_used |-> NULL, seven_day_used |-> NULL]

\* The process ends and is started again: the module state is that of import
\* (lines 31-42), the store is the file left behind, and main primes the
\* previous values.
Restart ==
    /\ cycle # NoCycle
    /\ \E latest_snapshot \in get_latest_snapshot(store) :
          previous_usage' = main_previous_usage(latest_snapshot)
    /\ usage_cache' = [data |-> NULL, timestamp |-> 0]
    /\ cycle' = NoCycle
    /\ UNCHANGED <<storeVars, session_details, clock, api_poller, registryVars,
                   watcherVars>>

\* Readings (50, 30), (50.5, 30) and (51, 30).
RestartReadings == {<<500, 300>>, <<505, 300>>, <<510, 300>>}

\* datetime.utcnow() of the insert: later for each row written.
UtcNow(db) == IF db = <<>> THEN Ts1 ELSE IF Len(db) = 1 THEN Ts1h ELSE Ts2

PollCycleOk ==
    \E u \in RestartReadings :
        FetchUsageData(Some("token-1"), OkResponse(UsageBody(u[1], u[2])), UtcNow(store))

NextRestart == PollCycleOk \/ TimePasses \/ Restart

SpecRestart == InitSequential /\ [][NextRestart]_vars

\* ------------------- SpecRequests: get_usage on the server's threads
\* app.py has no polling thread: a poll cycle is the call of fetch_usage_data
\* that get_usage makes for a request to /api/usage (lines 451-455), and
\* app.run (line 540) serves each request on a thread of its own.  The function
\* takes no lock, so its steps are those of a thread between the points where
\* it waits: the cache test and the token lookup (377-387), requests.get and
\* the comparison with previous_usage (390-413), insert_snapshot (416-433),
\* and the assignments to previous_usage and usage_cache with the return
\* (436-443).
Handlers == {"request-1", "request-2"}

NotHandling ==
    [pc |-> "idle", current_time |-> 0, data |-> NULL, reading |-> NULL,
     against |-> NULL, should_snapshot |-> FALSE, result |-> NULL]

HandlerResponses ==
    {OkResponse(UsageBody(u[1], u[2])) : u \in {<<500, 300>>, <<510, 300>>}}
    \cup {[status_code |-> 500, text |-> "server error"]}

InitRequests ==
    /\ store = <<>>
    /\ last = NoCall
    /\ thr = [t \in Handlers |-> NotHandling]
    /\ writer = NULL
    /\ session_details = NoSessions
    /\ WatcherAtImport
    /\ PollerAtImport
    /\ api_poller = NULL
    /\ RegistryAtImport

\* The cycles that have passed the cache test and have not returned.
InProgress == {t \in DOMAIN thr : thr[t].pc # "idle"}

HandlerOnly ==
    UNCHANGED <<last, writer, session_details, clock, cycle, api_poller, registryVars,
        watcherVars>>

\* Lines 377-387: a fresh cache answers the request; otherwise the token is
\* looked up and, when there is one, the request goes out.
GetUsage(t, token) ==
    /\ thr[t].pc = "idle"
    /\ IF Truthy(usage_cache.data) /\ clock - usage_cache.timestamp < cache_duration
       THEN thr' = [thr EXCEPT ![t] = [NotHandling EXCEPT !.result = usage_cache.data]]
       ELSE IF token = NULL \/ token[1] = ""
       THEN thr' = [thr EXCEPT ![t] = [NotHandling EXCEPT !.result = Some(TokenError)]]
       ELSE /\ Len(store) + Cardinality(InProgress) < MaxRows
            /\ thr' = [thr EXCEPT ![t] = [NotHandling EXCEPT !.pc = "request",
                                                              !.current_time = clock]]
    /\ UNCHANGED <<store, usage_cache, previous_usage>>
    /\ HandlerOnly

\* Lines 390-413 and 444-448: the answer of requests.get; a 200 is compared
\* with the previous values as they are now.
RequestAnswered(t, response) ==
    /\ thr[t].pc = "request"
    /\ IF response.status_code # 200
       THEN thr' = [thr EXCEPT ![t] = [NotHandling EXCEPT
                                          !.result = Some(StatusError(response))]]
       ELSE LET data == response.json
                five_hour_util ==
                    dict_get_default(dict_get_default(data, "five_hour", EmptyDict),
                                     "utilization", 0)
                seven_day_util ==
                    dict_get_default(dict_get_default(data, "seven_day", EmptyDict),
                                     "utilization", 0)
                snapshot == should_snapshot(previous_usage, five_hour_util,
                                            seven_day_util)
            IN  thr' = [thr EXCEPT ![t].pc = IF snapshot THEN "insert" ELSE "update",
                                   ![t].data = Some(data),
                                   ![t].reading = Some(<<five_hour_util, seven_day_util>>),
                                   ![t].against = Some(previous_usage),
                                   ![t].should_snapshot = snapshot]
    /\ UNCHANGED <<store, usage_cache, previous_usage>>
    /\ HandlerOnly

\* Lines 416-433: insert_snapshot, a failure of which is printed and dropped.
SnapshotSaved(t, utcnow) ==
    /\ thr[t].pc = "insert"
    /\ LET r == insert_snapshot(store,
                                poller_snapshot_args(thr[t].data[1], thr[t].reading[1][1],
                                                     thr[t].reading[1][2], utcnow))
       IN  store' = IF r.raised = NoError THEN r.db ELSE store
    /\ thr' = [thr EXCEPT ![t].pc = "update"]
    /\ UNCHANGED <<usage_cache, previous_usage>>
    /\ HandlerOnly

\* Lines 436-443: the slots and the cache take the reading; the data is
\* returned.
CycleReturns(t) ==
    /\ thr[t].pc = "update"
    /\ previous_usage' = update_previous_usage(previous_usage, thr[t].reading[1][1],
                                               thr[t].reading[1][2])
    /\ usage_cache' = [data |-> thr[t].data, timestamp |-> thr[t].current_time]
    /\ thr' = [thr EXCEPT ![t] = [NotHandling EXCEPT !.result = thr[t].data]]
    /\ UNCHANGED store
    /\ HandlerOnly

RequestArrives ==
    \E t \in Handlers, token \in {NULL, Some("token-1")} : GetUsage(t, token)

UsageApiAnswers ==
    \E t \in Handlers, response \in HandlerResponses : RequestAnswered(t, response)

HandlerSaves == \E t \in Handlers, utcnow \in {Ts1, Ts2} : SnapshotSaved(t, utcnow)

HandlerReturns == \E t \in Handlers : CycleReturns(t)

NextRequests ==
    RequestArrives \/ UsageApiAnswers \/ HandlerSaves \/ HandlerReturns \/ TimePasses

SpecRequests == InitRequests /\ [][NextRequests]_vars

\* --------------- SpecWatcher: app.py, the working set and who reloads it
\* A path is kept as its parts between the dots: '/path/to/session.jsonl' is
\* <<"/path/to/session", "jsonl">>.  str.endswith('.' + suffix):
EndsWith(path, suffix) == Len(path) >= 2 /\ path[Len(path)] = suffix

\* The paths of test_file_watcher.py 288-289 and 316-321, a backup of a .jsonl
\* file and a name that has the letters without the dot.
EventPaths ==
    {<<"/path/to/session", "jsonl">>, <<"/path/to/file", "txt">>,
     <<"/path/to/file", "json">>, <<"/path/to/file", "log">>,
     <<"/path/to/file", "py">>, <<"/path/to/session", "jsonl", "bak">>,
     <<"/path/to/jsonl">>}

\* load_latest_entries (lines 246-301) reads the files named by file_path, or
\* every recent .jsonl file, on the calling thread and rebinds latest_entries.
load_latest_entries(log, thread, file_path) ==
    [latest_entries |-> Len(log) + 1,
     reloads |-> Append(log, [thread |-> thread, file_path |-> file_path])]

\* JSONLHandler.on_modified (lines 45-51), called on the observer's thread.
on_modified(entries, log, queue, src_path) ==
    IF EndsWith(src_path, "jsonl")
    THEN LET r == load_latest_entries(log, "watcher", NULL)
         IN  [latest_entries |-> r.latest_entries, reloads |-> r.reloads,
              file_processing_queue |-> queue]
    ELSE [latest_entries |-> entries, reloads |-> log, file_processing_queue |-> queue]

\* What a route handler returned.
Response(route, total) ==
    [op |-> route, snapshot_id |-> NULL, a |-> <<>>, result |-> Some(total),
     raised |-> NoError, warned |-> FALSE, executed |-> FALSE]

WatcherOnly ==
    UNCHANGED <<store, thr, writer, session_details, pollerVars, api_poller,
                registryVars, worker>>

OnModified(src_path) ==
    /\ LET r == on_modified(latest_entries, reloads, file_processing_queue, src_path)
       IN  /\ Len(r.reloads) <= MaxReloads
           /\ latest_entries' = r.latest_entries
           /\ reloads' = r.reloads
           /\ file_processing_queue' = r.file_processing_queue
    /\ UNCHANGED last
    /\ WatcherOnly

\* get_entries (lines 319-325) and get_fields (328-334) read latest_entries.
GetEntries ==
    /\ last' = Response("get_entries", latest_entries)
    /\ UNCHANGED <<latest_entries, reloads, file_processing_queue>>
    /\ WatcherOnly

GetFields ==
    /\ last' = Response("get_fields", latest_entries)
    /\ UNCHANGED <<latest_entries, reloads, file_processing_queue>>
    /\ WatcherOnly

\* refresh (lines 337-341) calls load_latest_entries on the request's thread.
Refresh ==
    /\ Len(reloads) < MaxReloads
    /\ LET r == load_latest_entries(reloads, "request", NULL)
       IN  /\ latest_entries' = r.latest_entries
           /\ reloads' = r.reloads
           /\ last' = Response("refresh", r.latest_entries)
    /\ UNCHANGED file_processing_queue
    /\ WatcherOnly

FileModified == \E src_path \in EventPaths : OnModified(src_path)

NextWatcher == FileModified \/ GetEntries \/ GetFields \/ Refresh

SpecWatcher == InitSequential /\ [][NextWatcher]_vars

\* ------------------------- SpecWorker: the worker of the work queue
\* The worker thread of test_file_watcher.py (41-48, 84-95, 209-219): it takes
\* the oldest request off the queue, reloads, swallows an exception of the
\* reload, marks the request done and waits for the next.  The queue is
\* queue.Queue: `queue` holds the waiting items, `unfinished_tasks` counts the
\* items put and not yet marked done; `put` keeps every item ever put.
QueueItems == {"item1", "bad_item", "item2"}

queue_put(q, item) ==
    [queue |-> Append(q.queue, item), unfinished_tasks |-> q.unfinished_tasks + 1,
     put |-> Append(q.put, item)]

queue_task_done(q) == [q EXCEPT !.unfinished_tasks = @ - 1]

\* Mutant: the newest request is taken first.
worker_get_newest(w, q) ==
    [worker |-> [w EXCEPT !.pc = "process", !.item = Some(q.queue[Len(q.queue)]),
                          !.taken = Append(@, q.queue[Len(q.queue)])],
     file_processing_queue |-> [q EXCEPT !.queue = SubSeq(@, 1, Len(@) - 1)]]

\* item = test_queue.get(timeout=0.1) on a queue that is not empty.
worker_get(w, q) ==
    [worker |-> [w EXCEPT !.pc = "process", !.item = Some(Head(q.queue)),
                          !.taken = Append(@, Head(q.queue))],
     file_processing_queue |-> [q EXCEPT !.queue = Tail(@)]]

\* Mutant: an exception of the reload ends the iteration before task_done.
worker_process_skips_task_done(w, log, entries) ==
    IF w.item[1] = "bad_item"
    THEN [worker |-> [w EXCEPT !.pc = "get", !.item = NULL,
                               !.error_count = @ + 1],
          latest_entries |-> entries, reloads |-> log]
    ELSE LET r == load_latest_entries(log, "worker", w.item)
         IN  [worker |-> [w EXCEPT !.pc = "task_done",
                                   !.processed_items = Append(@, w.item[1])],
              latest_entries |-> r.latest_entries, reloads |-> r.reloads]

\* The reload of the item taken; the one for 'bad_item' raises, and the worker
\* counts the exception and goes on.
worker_process(w, log, entries) ==
    IF w.item[1] = "bad_item"
    THEN [worker |-> [w EXCEPT !.pc = "task_done", !.error_count = @ + 1],
          latest_entries |-> entries, reloads |-> log]
    ELSE LET r == load_latest_entries(log, "worker", w.item)
         IN  [worker |-> [w EXCEPT !.pc = "task_done",
                                   !.processed_items = Append(@, w.item[1])],
              latest_entries |-> r.latest_entries, reloads |-> r.reloads]

WorkerOnly ==
    UNCHANGED <<storeVars, session_details, pollerVars, api_poller, registryVars>>

\* test_queue.put(item), by the thread that posts the requests.
Put(item) ==
    /\ Len(file_processing_queue.put) < MaxReloads
    /\ file_processing_queue' = queue_put(file_processing_queue, item)
    /\ UNCHANGED <<latest_entries, reloads, worker>>
    /\ WorkerOnly

WorkerGets ==
    /\ worker.pc = "get"
    /\ file_processing_queue.queue # <<>>
    /\ LET r == worker_get(worker, file_processing_queue)
       IN  /\ worker' = r.worker
           /\ file_processing_queue' = r.file_processing_queue
    /\ UNCHANGED <<latest_entries, reloads>>
    /\ WorkerOnly

WorkerProcesses ==
    /\ worker.pc = "process"
    /\ LET r == worker_process(worker, reloads, latest_entries)
       IN  /\ worker' = r.worker
           /\ latest_entries' = r.latest_entries
           /\ reloads' = r.reloads
    /\ UNCHANGED file_processing_queue
    /\ WorkerOnly

WorkerTaskDone ==
    /\ worker.pc = "task_done"
    /\ file_processing_queue' = queue_task_done(file_processing_queue)
    /\ worker' = [worker EXCEPT !.pc = "get", !.item = NULL]
    /\ UNCHANGED <<latest_entries, reloads>>
    /\ WorkerOnly

RequestPosted == \E item \in QueueItems : Put(item)

\* The worker is a thread of its own (daemon=True, started at 51-52): it is
\* scheduled as long as it has a step to take.
WorkerRuns == WorkerGets \/ WorkerProcesses \/ WorkerTaskDone

NextWorker == RequestPosted \/ WorkerGets \/ WorkerProcesses \/ WorkerTaskDone

SpecWorker == InitSequential /\ [][NextWorker]_vars /\ WF_vars(WorkerRuns)

\* --------------------------- SpecSessionDetails: the session upserts
\* The keyword arguments of insert_session; those a caller leaves out take the
\* defaults of the signature.
SessionArgs(session_id, start_time, total_tokens, has_plans) ==
    [session_id |-> Some(session_id), start_time |-> start_time, end_time |-> NULL,
     total_messages |-> Some(0), total_tokens |-> Some(total_tokens),
     input_tokens |-> Some(0), output_tokens |-> Some(0), model_used |-> NULL,
     has_plans |-> has_plans, has_todos |-> FALSE,
     plan_count |-> Some(0), todo_count |-> Some(0)]

SessionIds == {SidS1, SidA2}

UpsertArgs ==
    {SessionArgs(sid, v[1], v[2], v[3]) :
        sid \in SessionIds,
        v \in {<<Some(Ts1), 0, FALSE>>, <<Some(Ts1), 1000, TRUE>>,
               <<Some(Ts2), 1000, FALSE>>, <<NULL, 0, FALSE>>}}

InsertSession(a) ==
    /\ session_details.sqlite_sequence < MaxUpserts
    /\ LET r == insert_session(session_details, a, clock)
       IN  /\ session_details' = r.db
           /\ last' = Call("insert_session", NULL, a, r)
    /\ UNCHANGED <<store, thr, writer, pollerVars, api_poller, registryVars,
        watcherVars>>

UpsertSession == \E a \in UpsertArgs : InsertSession(a)

NextSessionDetails == UpsertSession \/ TimePasses

SpecSessionDetails == InitSequential /\ [][NextSessionDetails]_vars

\* ------------------------- ApiPoller (claude_log_viewer.api_poller)
\* The poller object holds the bearer token it read when it was constructed.
\* One call of _fetch_usage is a poll cycle: it sends the request with the held
\* token; on 401 it asks the Credential Provider once for a fresh token, gives
\* up when none or the same token comes back, and otherwise holds the new token
\* and sends the request once more, whose outcome is final.  The object records
\* the tokens sent (`used`), the status of each response (`statuses`, 0 for a
\* request that raised) and the answers of the Credential Provider
\* (`refreshed`) of the cycle.
ApiTokens == {"token-1", "token-2", "token-3", "token-4"}

ProviderAnswers == {NULL} \cup {Some(t) : t \in ApiTokens}

ApiData == {UsageBody(u[1], u[2]) : u \in Readings}

ApiResponses ==
    {[status_code |-> 200, json |-> [data |-> d]] : d \in ApiData}
    \cup {[status_code |-> 401], [status_code |-> 429], [status_code |-> 500],
          [exception |-> "timed out"]}

Status(response) ==
    IF "exception" \in DOMAIN response THEN 0 ELSE response.status_code

\* ApiPoller(poll_interval): the token comes from the Credential Provider.
ApiPoller(token) ==
    [oauth_token |-> token, pc |-> "idle", used |-> <<>>, statuses |-> <<>>,
     refreshed |-> <<>>, result |-> NULL]

\* _fetch_usage is called: a poller without a token asks for one and fails the
\* cycle when none is available.
_fetch_usage_begin(p, token) ==
    LET held == IF p.oauth_token = NULL THEN token ELSE p.oauth_token
    IN  [oauth_token |-> held,
         pc |-> IF held = NULL THEN "done" ELSE "request",
         used |-> <<>>, statuses |-> <<>>, refreshed |-> <<>>, result |-> NULL]

\* Mutant: every 401 is answered by a request for a fresh token.
_fetch_usage_response_refresh_again(p, response) ==
    LET sent == [p EXCEPT !.used = Append(p.used, p.oauth_token[1]),
                          !.statuses = Append(p.statuses, Status(response))]
    IN  IF Status(response) = 200
        THEN [sent EXCEPT !.pc = "done", !.result = Some(response.json.data)]
        ELSE IF Status(response) = 401
        THEN [sent EXCEPT !.pc = "refresh"]
        ELSE [sent EXCEPT !.pc = "done"]

\* Mutant: every response other than 200 is answered by a request for a fresh
\* token.
_fetch_usage_response_refresh_on_failure(p, response) ==
    LET sent == [p EXCEPT !.used = Append(p.used, p.oauth_token[1]),
                          !.statuses = Append(p.statuses, Status(response))]
    IN  IF Status(response) = 200
        THEN [sent EXCEPT !.pc = "done", !.result = Some(response.json.data)]
        ELSE IF p.refreshed = <<>>
        THEN [sent EXCEPT !.pc = "refresh"]
        ELSE [sent EXCEPT !.pc = "done"]

\* requests.get with the held token has answered or raised.
_fetch_usage_response(p, response) ==
    LET sent == [p EXCEPT !.used = Append(p.used, p.oauth_token[1]),
                          !.statuses = Append(p.statuses, Status(response))]
    IN  IF Status(response) = 200
        THEN [sent EXCEPT !.pc = "done", !.result = Some(response.json.data)]
        ELSE IF Status(response) = 401 /\ p.refreshed = <<>>
        THEN [sent EXCEPT !.pc = "refresh"]
        ELSE [sent EXCEPT !.pc = "done"]

\* Mutant: the retry is sent with the token held before; the fresh one is
\* dropped.
_fetch_usage_refresh_forgets(p, token) ==
    LET asked == [p EXCEPT !.refreshed = Append(p.refreshed, token)]
    IN  IF token = NULL \/ token = p.oauth_token
        THEN [asked EXCEPT !.pc = "done"]
        ELSE [asked EXCEPT !.pc = "request"]

\* Mutant: the request is sent again whatever token came back.
_fetch_usage_refresh_blind(p, token) ==
    LET asked == [p EXCEPT !.refreshed = Append(p.refreshed, token)]
    IN  IF token = NULL
        THEN [asked EXCEPT !.pc = "done"]
        ELSE [asked EXCEPT !.oauth_token = token, !.pc = "request"]

\* The Credential Provider has answered the request for a fresh token.
_fetch_usage_refresh(p, token) ==
    LET asked == [p EXCEPT !.refreshed = Append(p.refreshed, token)]
    IN  IF token = NULL \/ token = p.oauth_token
        THEN [asked EXCEPT !.pc = "done"]
        ELSE [asked EXCEPT !.oauth_token = token, !.pc = "request"]

ApiOnly == UNCHANGED <<storeVars, session_details, pollerVars, registryVars,
    watcherVars>>

Construct(token) ==
    /\ api_poller = NULL
    /\ api_poller' = Some(ApiPoller(token))
    /\ ApiOnly

FetchUsageBegin(token) ==
    /\ api_poller # NULL
    /\ api_poller[1].pc \in {"idle", "done"}
    /\ api_poller' = Some(_fetch_usage_begin(api_poller[1], token))
    /\ ApiOnly

FetchUsageResponse(response) ==
    /\ api_poller # NULL
    /\ api_poller[1].pc = "request"
    /\ api_poller' = Some(_fetch_usage_response(api_poller[1], response))
    /\ ApiOnly

FetchUsageRefresh(token) ==
    /\ api_poller # NULL
    /\ api_poller[1].pc = "refresh"
    /\ api_poller' = Some(_fetch_usage_refresh(api_poller[1], token))
    /\ ApiOnly

PollerConstructed == \E token \in ProviderAnswers : Construct(token)

CycleBegins == \E token \in ProviderAnswers : FetchUsageBegin(token)

ApiAnswers == \E response \in ApiResponses : FetchUsageResponse(response)

ProviderAnswers401 == \E token \in ProviderAnswers : FetchUsageRefresh(token)

NextApiPoller == PollerConstructed \/ CycleBegins \/ ApiAnswers \/ ProviderAnswers401

SpecApiPoller == InitSequential /\ [][NextApiPoller]_vars

\* -------------- the repository lock registry (claude_log_viewer.git_manager)
\* _get_repo_lock(repo_path) gives the lock of a repository, creating it on the
\* first request: the registry is looked up without the guard; a thread that
\* finds no lock takes the registry guard, looks again, creates and registers
\* the lock when there is still none, and releases the guard; the lock returned
\* is the registered one.  A lock object is its index in lock_objects.
Threads == 1..MaxThreads

RepoPaths == {"/test/repo5", "/test/repo6"}

NotCalling == [pc |-> "idle", path |-> NULL, lock |-> NULL]

\* Mutant: the thread that found no lock at its first look creates one without
\* looking again.
_get_repo_lock_create_unchecked(registry, objects, path) ==
    [registry |-> [k \in DOMAIN registry \cup {path} |->
                      IF k = path THEN Len(objects) + 1 ELSE registry[k]],
     objects |-> Append(objects, [path |-> path, holder |-> NULL])]

\* Mutant: one lock for the whole registry; a path without a lock is given
\* the lock object created first.
_get_repo_lock_create_one_lock(registry, objects, path) ==
    IF path \in DOMAIN registry
    THEN [registry |-> registry, objects |-> objects]
    ELSE IF objects # <<>>
         THEN [registry |-> [k \in DOMAIN registry \cup {path} |->
                                IF k = path THEN 1 ELSE registry[k]],
               objects |-> objects]
         ELSE [registry |-> [k \in DOMAIN registry \cup {path} |->
                                IF k = path THEN Len(objects) + 1 ELSE registry[k]],
               objects |-> Append(objects, [path |-> path, holder |-> NULL])]

\* The second look, under the guard: the lock is created only when the path
\* has none.
_get_repo_lock_create(registry, objects, path) ==
    IF path \in DOMAIN registry
    THEN [registry |-> registry, objects |-> objects]
    ELSE [registry |-> [k \in DOMAIN registry \cup {path} |->
                           IF k = path THEN Len(objects) + 1 ELSE registry[k]],
          objects |-> Append(objects, [path |-> path, holder |-> NULL])]

RegistryOnly ==
    UNCHANGED <<storeVars, session_details, pollerVars, api_poller, watcherVars>>

GetRepoLock(t, path) ==
    /\ acquirers[t].pc = "idle"
    /\ acquirers' = [acquirers EXCEPT ![t] =
                        [pc |-> "look", path |-> Some(path), lock |-> NULL]]
    /\ UNCHANGED <<_repo_locks, registry_guard, lock_objects, execution_order>>
    /\ RegistryOnly

FirstLook(t) ==
    /\ acquirers[t].pc = "look"
    /\ acquirers' = [acquirers EXCEPT ![t].pc =
                        IF acquirers[t].path[1] \in DOMAIN _repo_locks
                        THEN "return" ELSE "guard"]
    /\ UNCHANGED <<_repo_locks, registry_guard, lock_objects, execution_order>>
    /\ RegistryOnly

EnterGuard(t) ==
    /\ acquirers[t].pc = "guard"
    /\ registry_guard = NULL
    /\ registry_guard' = Some(t)
    /\ acquirers' = [acquirers EXCEPT ![t].pc = "create"]
    /\ UNCHANGED <<_repo_locks, lock_objects, execution_order>>
    /\ RegistryOnly

SecondLook(t) ==
    /\ acquirers[t].pc = "create"
    /\ LET r == _get_repo_lock_create(_repo_locks, lock_objects,
                                      acquirers[t].path[1])
       IN  /\ _repo_locks' = r.registry
           /\ lock_objects' = r.objects
    /\ acquirers' = [acquirers EXCEPT ![t].pc = "leave"]
    /\ UNCHANGED <<registry_guard, execution_order>>
    /\ RegistryOnly

LeaveGuard(t) ==
    /\ acquirers[t].pc = "leave"
    /\ registry_guard' = NULL
    /\ acquirers' = [acquirers EXCEPT ![t].pc = "return"]
    /\ UNCHANGED <<_repo_locks, lock_objects, execution_order>>
    /\ RegistryOnly

ReturnLock(t) ==
    /\ acquirers[t].pc = "return"
    /\ acquirers' = [acquirers EXCEPT
                        ![t].pc = "got",
                        ![t].lock = Some(_repo_locks[acquirers[t].path[1]])]
    /\ UNCHANGED <<_repo_locks, registry_guard, lock_objects, execution_order>>
    /\ RegistryOnly

InitRegistry ==
    /\ store = <<>>
    /\ last = NoCall
    /\ thr = <<>>
    /\ writer = NULL
    /\ session_details = NoSessions
    /\ WatcherAtImport
    /\ PollerAtImport
    /\ api_poller = NULL
    /\ _repo_locks = <<>>
    /\ registry_guard = NULL
    /\ lock_objects = <<>>
    /\ acquirers = [t \in Threads |-> NotCalling]
    /\ execution_order = <<>>

ThreadCalls == \E t \in Threads, path \in RepoPaths : GetRepoLock(t, path)

ThreadLooks == \E t \in Threads : FirstLook(t)

ThreadEntersGuard == \E t \in Threads : EnterGuard(t)

ThreadLooksAgain == \E t \in Threads : SecondLook(t)

ThreadLeavesGuard == \E t \in Threads : LeaveGuard(t)

ThreadReturns == \E t \in Threads : ReturnLock(t)

NextRegistry ==
    \/ ThreadCalls
    \/ ThreadLooks
    \/ ThreadEntersGuard
    \/ ThreadLooksAgain
    \/ ThreadLeavesGuard
    \/ ThreadReturns

SpecRegistry == InitRegistry /\ [][NextRegistry]_vars

\* ----------------- operations guarded by a repository lock (`with lock:`)
\* A thread that has its lock from _get_repo_lock runs one operation under
\* `with lock:`.  Entering blocks while another thread holds the lock; leaving
\* the block releases the lock, whether the body returned or raised.  The
\* events of the operations are appended to execution_order.

\* Mutant: the block is entered whoever holds the lock.
lock_enter_unlocked(objects, lock, t) ==
    Some([objects EXCEPT ![lock].holder = Some(t)])

\* lock.__enter__(): NULL while the lock is held (the thread waits), else the
\* lock objects with the lock held by t.
lock_enter(objects, lock, t) ==
    IF objects[lock].holder = NULL
    THEN Some([objects EXCEPT ![lock].holder = Some(t)])
    ELSE NULL

\* Mutant: manual acquire and release around the body; a raising body skips
\* the release.
lock_exit_skipped_on_raise(objects, lock, raised) ==
    IF raised THEN objects ELSE [objects EXCEPT ![lock].holder = NULL]

\* lock.__exit__(): the lock is released on both exits of the block.
lock_exit(objects, lock, raised) == [objects EXCEPT ![lock].holder = NULL]

Event(t, event) == [thread |-> t, path |-> acquirers[t].path[1], event |-> event]

OperationStarts(t) ==
    /\ acquirers[t].pc = "got"
    /\ LET r == lock_enter(lock_objects, acquirers[t].lock[1], t)
       IN  /\ r # NULL
           /\ lock_objects' = r[1]
    /\ acquirers' = [acquirers EXCEPT ![t].pc = "inside"]
    /\ execution_order' = Append(execution_order, Event(t, "start"))
    /\ UNCHANGED <<_repo_locks, registry_guard>>
    /\ RegistryOnly

OperationEnds(t) ==
    /\ acquirers[t].pc = "inside"
    /\ lock_objects' = lock_exit(lock_objects, acquirers[t].lock[1], FALSE)
    /\ acquirers' = [acquirers EXCEPT ![t].pc = "ended"]
    /\ execution_order' = Append(execution_order, Event(t, "end"))
    /\ UNCHANGED <<_repo_locks, registry_guard>>
    /\ RegistryOnly

OperationRaises(t) ==
    /\ acquirers[t].pc = "inside"
    /\ lock_objects' = lock_exit(lock_objects, acquirers[t].lock[1], TRUE)
    /\ acquirers' = [acquirers EXCEPT ![t].pc = "raised"]
    /\ execution_order' = Append(execution_order, Event(t, "raise"))
    /\ UNCHANGED <<_repo_locks, registry_guard>>
    /\ RegistryOnly

ThreadStartsOperation == \E t \in Threads : OperationStarts(t)

ThreadEndsOperation == \E t \in Threads : OperationEnds(t)

ThreadRaises == \E t \in Threads : OperationRaises(t)

NextGuarded ==
    \/ ThreadCalls
    \/ ThreadLooks
    \/ ThreadEntersGuard
    \/ ThreadLooksAgain
    \/ ThreadLeavesGuard
    \/ ThreadReturns
    \/ ThreadStartsOperation
    \/ ThreadEndsOperation
    \/ ThreadRaises

SpecGuarded == InitRegistry /\ [][NextGuarded]_vars

\* The operations alone, as the callers of the locks run them: the locks of the
\* paths are obtained first, and then every thread runs one operation under the
\* lock of its path.
LocksObtained ==
    LET first == _get_repo_lock_create(<<>>, <<>>, "/test/repo5")
    IN  _get_repo_lock_create(first.registry, first.objects, "/test/repo6")

InitOperations ==
    /\ store = <<>>
    /\ last = NoCall
    /\ thr = <<>>
    /\ writer = NULL
    /\ session_details = NoSessions
    /\ WatcherAtImport
    /\ PollerAtImport
    /\ api_poller = NULL
    /\ _repo_locks = LocksObtained.registry
    /\ registry_guard = NULL
    /\ lock_objects = LocksObtained.objects
    /\ acquirers \in [Threads ->
                        {[pc |-> "got", path |-> Some(path),
                          lock |-> Some(LocksObtained.registry[path])] :
                            path \in RepoPaths}]
    /\ execution_order = <<>>

NextOperations == ThreadStartsOperation \/ ThreadEndsOperation \/ ThreadRaises

\* A started thread runs on: the scheduler gives every thread that can take a
\* step a turn, and the body of an operation ends, by return or by exception.
ThreadRuns(t) == OperationStarts(t) \/ OperationEnds(t) \/ OperationRaises(t)

SpecOperations ==
    /\ InitOperations
    /\ [][NextOperations]_vars
    /\ \A t \in Threads : WF_vars(ThreadRuns(t))

\* ------------------------------------------------------------------ claims
\* The row a call of `last` wrote or addressed, as get_snapshot_by_id reads it.
LastRow ==
    get_snapshot_by_id(store,
        IF last.op = "update_snapshot_calculations" THEN last.snapshot_id ELSE last.result)

\* C1: right after insert_snapshot_tick returns an id, the row read back by
\* get_snapshot_by_id(id) has the raw fields equal to the arguments, the eight
\* delta/total fields NULL, active_sessions NULL and recalculated = 0.
C1_TickRowHasNullCalculations ==
    (last.op = "insert_snapshot_tick" /\ last.raised = NoError) =>
        /\ last.result # NULL
        /\ LastRow # NULL
        /\ \A c \in RawFields : LastRow[1][c] = last.a[c]
        /\ \A c \in DeltaFields : LastRow[1][c] = NULL
        /\ LastRow[1].active_sessions = NULL
        /\ LastRow[1].recalculated = Some(0)

\* A second tick has returned, with its optional arguments left None.
C1_Witness ==
    /\ last.op = "insert_snapshot_tick"
    /\ last.raised = NoError
    /\ last.result = Some(2)
    /\ last.a.five_hour_pct = NULL
    /\ last.a.five_hour_used = Some(0)

AllCalculations ==
    {Calculations(S, v) : S \in SUBSET DeltaFields, v \in {0, 1000}}

\* C2: update_snapshot_calculations(id, S) sets exactly the fields in S and
\* leaves every delta/total field outside S, and every other row, as it was,
\* for every subset S of the eight fields and whatever earlier calls left.
C2_PartialUpdateIndependence ==
    \A i \in 1..Len(store), calc \in AllCalculations :
        LET r == update_snapshot_calculations(store, store[i].id, UpdateArgs(calc, NULL))
        IN  /\ r.raised = NoError
            /\ Len(r.db) = Len(store)
            /\ \A c \in DeltaFields :
                  r.db[i][c] = IF calc[c] # NULL THEN calc[c] ELSE store[i][c]
            /\ \A j \in 1..Len(store) : j # i => r.db[j] = store[j]

\* A second call on a row that holds 7 in every delta/total field: after the
\* seven-day token count was set to 0, the five-hour fields are set to 1000.
C2_Witness ==
    /\ last.op = "update_snapshot_calculations"
    /\ last.a = UpdateArgs(Calculations(FiveHourFields, 1000), NULL)
    /\ LastRow # NULL
    /\ \A c \in FiveHourFields : LastRow[1][c] = Some(1000)
    /\ LastRow[1].seven_day_tokens_consumed = Some(0)
    /\ LastRow[1].seven_day_messages_count = Some(7)
    /\ Len(store) = 2

\* C3: update_snapshot_calculations called with no field returns without
\* sending a statement, and the whole table is the same before and after.
C3_EmptyUpdateIsNoOp ==
    [][(/\ last'.op = "update_snapshot_calculations"
        /\ last'.a = UpdateArgs(Calculations({}, 0), NULL))
       => (/\ store' = store
           /\ last'.raised = NoError
           /\ ~ last'.executed)]_vars

\* The empty call was made on a row an earlier call had filled, one of two rows.
C3_Witness ==
    /\ last.op = "update_snapshot_calculations"
    /\ last.a = UpdateArgs(Calculations({}, 0), NULL)
    /\ last.snapshot_id = Some(1)
    /\ Len(store) = 2
    /\ store[1].five_hour_tokens_consumed = Some(1000)
    /\ store[2].five_hour_tokens_consumed = Some(7)

\* The rule of the specification for one entry of active_sessions: a non-empty
\* string of at most 100 characters, each alphanumeric, '-' or '_'.
IsSessionId(e) ==
    /\ e # NotAString
    /\ Len(e) >= 1
    /\ Len(e) <= 100
    /\ \A i \in 1..Len(e) : IsAlnum(e[i]) \/ e[i] = "-" \/ e[i] = "_"

IsSessionList(l) == \A i \in 1..Len(l) : IsSessionId(l[i])

\* The outcome of insert_snapshot_tick followed, when it returned, by
\* update_snapshot_calculations with the delta/total fields and active_sessions
\* of `a` on the id returned.
TickThenUpdate(db, a) ==
    LET t == insert_snapshot_tick(db, [c \in RawFields |-> a[c]])
        u == update_snapshot_calculations(t.db, t.result,
                                          [c \in DeltaFields \cup {"active_sessions"} |-> a[c]])
    IN  IF t.raised # NoError
        THEN [db |-> t.db, result |-> NULL, raised |-> t.raised]
        ELSE [db |-> u.db, result |-> t.result, raised |-> u.raised]

\* C5: insert_snapshot is equivalent to insert_snapshot_tick followed by
\* update_snapshot_calculations with all available fields: on the same table
\* and arguments both leave the same rows, return the same id, neither raising.
C5_LegacyInsertIsTickThenUpdate ==
    \A a \in LegacyArgsS :
        LET one == insert_snapshot(store, a)
            two == TickThenUpdate(store, a)
        IN  /\ one.raised = NoError
            /\ two.raised = NoError
            /\ one.result = two.result
            /\ one.db = two.db

\* C6: update_snapshot_calculations given an active_sessions list that fails
\* validation together with numeric fields does not raise; it warns, stores
\* NULL for active_sessions and still writes the numeric fields.
C6_UpdateDegradesInvalidSessions ==
    (/\ last.op = "update_snapshot_calculations"
     /\ last.a.active_sessions # NULL
     /\ ~ IsSessionList(last.a.active_sessions[1])
     /\ \E c \in DeltaFields : last.a[c] # NULL
     /\ LastRow # NULL)
    => (/\ last.raised = NoError
        /\ last.warned
        /\ \A c \in DeltaFields : last.a[c] # NULL => LastRow[1][c] = last.a[c])

\* C7: insert_snapshot given an active_sessions list that fails validation
\* (and the required fields) creates the row, with active_sessions NULL, prints
\* a warning, and stores every other field as given.
C7_InsertDegradesInvalidSessions ==
    (/\ last.op = "insert_snapshot"
     /\ last.a.active_sessions # NULL
     /\ ~ IsSessionList(last.a.active_sessions[1])
     /\ \A c \in NotNullColumns : last.a[c] # NULL)
    => (/\ last.raised = NoError
        /\ last.warned
        /\ last.result # NULL
        /\ LastRow # NULL
        /\ LastRow[1].active_sessions = NULL
        /\ LastRow[1].id = last.result
        /\ \A c \in RawFields \cup DeltaFields : LastRow[1][c] = last.a[c])

\* A list whose second entry is empty was given, and the row is the second one.
C7_Witness ==
    /\ last.op = "insert_snapshot"
    /\ last.a.active_sessions = Some(<<SidS1, <<>>>>)
    /\ last.result = Some(2)
    /\ Len(store) = 2
    /\ store[2].five_hour_tokens_total = Some(7)

\* Lists of valid session ids: every list of at most two of three ids, a list
\* that repeats an id, and an id as long as a UUID.
RoundTripLists ==
    LET ids == {SidS1, SidA2, SidE9}
    IN  {<<>>, <<SidE9, SidS1, SidS1>>, <<SidOfLen(UuidLen)>>}
        \cup {<<e>> : e \in ids}
        \cup {<<e, f>> : e \in ids, f \in ids}

\* C8: a list of valid session ids written through insert_snapshot or
\* update_snapshot_calculations is read back from the row, by json.loads of
\* the column, as the same ids in the same order.
C8_ActiveSessionsRoundTrip ==
    /\ (/\ last.op \in {"insert_snapshot", "update_snapshot_calculations"}
        /\ last.a.active_sessions # NULL
        /\ IsSessionList(last.a.active_sessions[1])
        /\ LastRow # NULL)
       => (/\ last.raised = NoError
           /\ LastRow[1].active_sessions # NULL
           /\ json_loads(LastRow[1].active_sessions[1]) = last.a.active_sessions[1])
    /\ \A l \in RoundTripLists :
        /\ IsSessionList(l)
        /\ LET r == insert_snapshot(store,
                        SnapshotArgs(RawReading(Some(Ts1), Some(75), FALSE),
                                     Calculations({}, 0), Some(l)))
               row == get_snapshot_by_id(r.db, r.result)
           IN  /\ r.raised = NoError
               /\ row # NULL
               /\ row[1].active_sessions # NULL
               /\ json_loads(row[1].active_sessions[1]) = l
        /\ \A i \in 1..Len(store) :
            LET r == update_snapshot_calculations(store, store[i].id,
                         UpdateArgs(Calculations({}, 0), Some(l)))
                row == get_snapshot_by_id(r.db, store[i].id)
            IN  /\ r.raised = NoError
                /\ row[1].active_sessions # NULL
                /\ json_loads(row[1].active_sessions[1]) = l

\* A row inserted with three ids, one of them twice and one with a letter
\* beyond ASCII, then given the list of one id by an update.
C8_Witness ==
    /\ last.op = "update_snapshot_calculations"
    /\ last.a.active_sessions = Some(<<SidS1>>)
    /\ last.snapshot_id = Some(1)
    /\ Len(store) = 2
    /\ store[1].active_sessions = Some(json_dumps(<<SidS1>>))
    /\ store[2].active_sessions = Some(json_dumps(<<SidE9, SidS1, SidS1>>))

\* The delta/total fields a call names.
Named(a) == {c \in DeltaFields : a[c] # NULL}

\* C4: two update_snapshot_calculations calls that run concurrently on the
\* same snapshot id with disjoint field subsets lose no write: when both have
\* completed, the row holds both callers' values, and every field outside the
\* two subsets, and every other row, is as it was.
C4_ConcurrentUpdatesKeepBothWrites ==
    (/\ thr["A"].pc = "done"
     /\ thr["B"].pc = "done"
     /\ thr["A"].snapshot_id = thr["B"].snapshot_id
     /\ Named(thr["A"].a) \cap Named(thr["B"].a) = {})
    => LET row == get_snapshot_by_id(store, thr["A"].snapshot_id)[1]
           old == get_snapshot_by_id(TableOfTwo, thr["A"].snapshot_id)[1]
       IN  /\ \A c \in DeltaFields :
                 row[c] = IF c \in Named(thr["A"].a) THEN thr["A"].a[c]
                          ELSE IF c \in Named(thr["B"].a) THEN thr["B"].a[c]
                          ELSE old[c]
           /\ \A c \in RawFields \cup {"id", "recalculated"} : row[c] = old[c]
           /\ \A r \in Range(TableOfTwo) : r.id # row.id => r \in Range(store)

\* Both calls began before either had committed, on the row that held 7 in
\* every field, one naming the five-hour fields and one the seven-day fields.
C4_Witness ==
    /\ thr["A"].pc = "done"
    /\ thr["B"].pc = "done"
    /\ thr["A"].snapshot_id = Some(2)
    /\ thr["B"].snapshot_id = Some(2)
    /\ thr["A"].before = TableOfTwo
    /\ thr["B"].before = TableOfTwo
    /\ Named(thr["A"].a) = FiveHourFields
    /\ Named(thr["B"].a) = SevenDayFields
\* ------------------------------------------------- claims on the poller
\* A step of a poll cycle that evaluated a 200 response: the clock stands still
\* during a cycle and moves between cycles.
EvaluatedReading == clock' = clock /\ cycle'.reading # NULL

\* The slots a previous value can be in: unset, or a reading.
PreviousSlots == {NULL} \cup {Some(u[1]) : u \in Readings} \cup {Some(u[2]) : u \in Readings}

\* C11: on a new reading the snapshot event triggers (the poller calls
\* insert_snapshot and the table gains a row) if and only if the previous
\* five-hour value is set and the new one is strictly greater, or the previous
\* seven-day value is set and the new one is strictly greater; with both unset
\* nothing triggers.  The decision is the same for every pair of slots, also a
\* pair with one slot unset.
C11_TriggerRule ==
    [][EvaluatedReading =>
        LET now == cycle'.reading[1]
            rule(p5, p7) == \/ (p5 # NULL /\ now[1] > p5[1])
                            \/ (p7 # NULL /\ now[2] > p7[1])
            triggers == rule(previous_usage.five_hour_used,
                             previous_usage.seven_day_used)
        IN  /\ cycle'.should_snapshot <=> triggers
            /\ Len(store') = Len(store) + 1 <=> triggers
            /\ Len(store') = Len(store) <=> ~triggers
            /\ \A p5 \in PreviousSlots, p7 \in PreviousSlots :
                should_snapshot([five_hour_used |-> p5, seven_day_used |-> p7],
                                now[1], now[2])
                <=> rule(p5, p7)]_vars

\* A reading of (51, 30) has triggered and the table has the row.
C11_Witness ==
    /\ cycle.reading = Some(<<510, 300>>)
    /\ cycle.should_snapshot
    /\ Len(store) >= 1
    /\ store[Len(store)].five_hour_pct = Some(510)

\* A step of a poll cycle that evaluated a 200 response while both previous
\* values were unset: the first successful observation.
FirstObservation ==
    /\ EvaluatedReading
    /\ previous_usage.five_hour_used = NULL
    /\ previous_usage.seven_day_used = NULL

\* C12: on the first successful observation no increase event triggers, but the
\* reading is still recorded by an insert, so the table gains one row in that
\* cycle.
C12_FirstObservationRecorded ==
    [][FirstObservation =>
        /\ ~cycle'.should_snapshot
        /\ Len(store') = Len(store) + 1]_vars

\* C12 as amended: on the first successful observation no increase event
\* triggers and no row is written; the reading is kept only in the
\* previous-value slots and the cache.
C12_FirstObservationNotStored ==
    [][FirstObservation =>
        /\ ~cycle'.should_snapshot
        /\ cycle'.inserts = 0
        /\ store' = store
        /\ previous_usage' = [five_hour_used |-> Some(cycle'.reading[1][1]),
                              seven_day_used |-> Some(cycle'.reading[1][2])]
        /\ usage_cache'.data = cycle'.result
        /\ usage_cache'.timestamp = clock]_vars

\* The first cycle of the process has read (51, 30) and the table is empty.
C12_Witness ==
    /\ cycle.reading = Some(<<510, 300>>)
    /\ ~cycle.should_snapshot
    /\ usage_cache.timestamp = ProcessStart
    /\ previous_usage.five_hour_used = Some(510)
    /\ store = <<>>

\* C13: after every poll cycle that evaluates a 200 reading both previous-value
\* slots equal that reading, whether or not the event triggered, and nothing
\* else changes them; so each comparison is made against the immediately
\* preceding evaluated reading.
C13_PreviousIsLatestReading ==
    [][/\ EvaluatedReading =>
            previous_usage' = [five_hour_used |-> Some(cycle'.reading[1][1]),
                               seven_day_used |-> Some(cycle'.reading[1][2])]
       /\ ~EvaluatedReading => previous_usage' = previous_usage]_vars

\* After a snapshot was written, a lower reading (40, 30) has been evaluated
\* without triggering and has replaced the previous values.
C13_Witness ==
    /\ cycle.reading = Some(<<400, 300>>)
    /\ ~cycle.should_snapshot
    /\ previous_usage = [five_hour_used |-> Some(400), seven_day_used |-> Some(300)]
    /\ Len(store) >= 1

\* C14: after a cycle that received a 200 response at time t, every poll started
\* less than cache_duration after t returns the cached response, looks up no
\* credential, sends no request, writes no snapshot and leaves the cache and
\* the previous values as they are, whatever the body of that response was.
C14_CacheHitWithinTtl ==
    [][(/\ clock' = clock
        /\ usage_cache.data # NULL
        /\ clock - usage_cache.timestamp < cache_duration)
       => /\ cycle'.hit
          /\ cycle'.result = usage_cache.data
          /\ cycle'.lookups = 0
          /\ cycle'.requests = 0
          /\ cycle'.inserts = 0
          /\ store' = store
          /\ previous_usage' = previous_usage
          /\ usage_cache' = usage_cache]_vars

\* The Token Reconciler's rule on the values `previous` and the reading `now`.
Increase(previous, now) ==
    \/ (/\ previous.five_hour_used # NULL
        /\ now[1] > previous.five_hour_used[1])
    \/ (/\ previous.seven_day_used # NULL
        /\ now[2] > previous.seven_day_used[1])

\* The integer form `used` of the percentage `pct` (in tenths): its whole part.
IsIntegerForm(used, pct) ==
    /\ used # NULL
    /\ pct # NULL
    /\ used[1] * 10 <= pct[1]
    /\ pct[1] < (used[1] + 1) * 10

C19_FailedCycleServesLastData ==
    [][(/\ clock' = clock
        /\ ~cycle'.hit
        /\ cycle'.reading = NULL)
       => /\ cycle'.raised = NoError
          /\ cycle'.result # NULL
          /\ Truthy(usage_cache.data) => cycle'.result = usage_cache.data
          /\ "error" \in DOMAIN cycle'.result[1] => ~Truthy(usage_cache.data)]_vars

\* The responses that are not a 200: another status, or the exception that
\* requests.get raises.
FailedResponses ==
    {response \in Responses :
        "exception" \in DOMAIN response \/ response.status_code # 200}

PollerUntouched ==
    /\ store' = store
    /\ usage_cache' = usage_cache
    /\ previous_usage' = previous_usage
    /\ cycle'.inserts = 0
    /\ ~cycle'.should_snapshot

\* C29: a poll cycle that has a token and whose request ends with a status
\* other than 200 or with a network error or timeout writes no snapshot, leaves
\* the cache (data and timestamp) and both previous values as they were, and
\* returns a payload with the key `error`.
C29_FailedRequestChangesNothing ==
    [][\A response \in FailedResponses, utcnow \in {Ts1, Ts2} :
          (FetchUsageData(Some("token-1"), response, utcnow) /\ ~cycle'.hit)
          => /\ PollerUntouched
             /\ cycle'.requests = 1
             /\ cycle'.raised = NoError
             /\ cycle'.result # NULL
             /\ "error" \in DOMAIN cycle'.result[1]]_vars

\* A cycle has failed with status 500 after an earlier one had stored a row:
\* the cache has expired and still holds the body of the earlier cycle, the
\* previous values are its reading.
C29_Witness ==
    /\ cycle.result = Some(StatusError([status_code |-> 500, text |-> "server error"]))
    /\ cycle.requests = 1
    /\ Len(store) = 1
    /\ Truthy(usage_cache.data)
    /\ clock - usage_cache.timestamp >= cache_duration
    /\ previous_usage.five_hour_used # NULL

\* C30: a poll cycle that does not find the cache fresh and gets no token from
\* get_oauth_token sends no request, writes no snapshot, leaves the cache and
\* both previous values as they were, and returns the error of the token.
C30_NoTokenNoRequest ==
    [][\A token \in {NULL, Some("")}, response \in Responses, utcnow \in {Ts1, Ts2} :
          (FetchUsageData(token, response, utcnow) /\ ~cycle'.hit)
          => /\ PollerUntouched
             /\ cycle'.lookups = 1
             /\ cycle'.requests = 0
             /\ cycle'.reading = NULL
             /\ cycle'.result = Some(TokenError)]_vars

\* A cycle has failed for want of a token after the cache, filled by an earlier
\* cycle, had expired.
C30_Witness ==
    /\ cycle.result = Some(TokenError)
    /\ cycle.lookups = 1
    /\ cycle.requests = 0
    /\ Truthy(usage_cache.data)
    /\ clock - usage_cache.timestamp >= cache_duration
    /\ previous_usage.five_hour_used # NULL

\* ---------------------------------------------- claims on the ApiPoller
\* A cycle of _fetch_usage has ended whose first request was answered 401.
EndedAfter401 ==
    /\ api_poller # NULL
    /\ api_poller[1].pc = "done"
    /\ api_poller[1].statuses # <<>>
    /\ api_poller[1].statuses[1] = 401

\* ... and the Credential Provider then gave a token other than the one used.
RefreshedTokenDiffers ==
    /\ EndedAfter401
    /\ api_poller[1].refreshed # <<>>
    /\ api_poller[1].refreshed[1] # NULL
    /\ api_poller[1].refreshed[1][1] # api_poller[1].used[1]

C17_NoRetryWithUnchangedToken ==
    (/\ EndedAfter401
     /\ api_poller[1].refreshed # <<>>
     /\ api_poller[1].refreshed[1] = Some(api_poller[1].used[1]))
    => /\ Len(api_poller[1].statuses) = 1
       /\ Len(api_poller[1].refreshed) = 1
       /\ api_poller[1].result = NULL
       /\ api_poller[1].oauth_token = Some(api_poller[1].used[1])

C17_Witness ==
    /\ EndedAfter401
    /\ api_poller[1].statuses = <<401>>
    /\ api_poller[1].used = <<"token-1">>
    /\ api_poller[1].refreshed = <<Some("token-1")>>
    /\ api_poller[1].oauth_token = Some("token-1")

FirstStatus == api_poller[1].statuses[1]

\* C31: a fresh token is requested only after a 401; a cycle whose first
\* request returns 200 is over after exactly 1 outbound call, has asked the
\* Credential Provider for no fresh token, returns the parsed data and holds
\* the token it sent.
C31_RefreshOnlyAfter401 ==
    (api_poller # NULL /\ api_poller[1].statuses # <<>>) =>
        /\ (api_poller[1].pc = "refresh" \/ api_poller[1].refreshed # <<>>)
            => FirstStatus = 401
        /\ FirstStatus = 200 =>
            /\ api_poller[1].pc = "done"
            /\ Len(api_poller[1].statuses) = 1
            /\ Len(api_poller[1].used) = 1
            /\ api_poller[1].refreshed = <<>>
            /\ api_poller[1].result # NULL
            /\ api_poller[1].oauth_token = Some(api_poller[1].used[1])

C31_Witness ==
    /\ api_poller # NULL
    /\ api_poller[1].pc = "done"
    /\ api_poller[1].statuses = <<200>>
    /\ api_poller[1].used = <<"token-1">>
    /\ api_poller[1].refreshed = <<>>
    /\ api_poller[1].oauth_token = Some("token-1")
    /\ api_poller[1].result = Some(UsageBody(510, 300))

\* ------------------------------------ claims on the repository lock registry
\* The lock objects created for a path.
LocksOf(path) == {i \in 1..Len(lock_objects) : lock_objects[i].path = path}

\* C20: however many threads make the first acquisition for the same path at
\* the same time, in every interleaving exactly one lock object is created for
\* that path and every caller receives that object.
C20_OneLockPerPath ==
    \A path \in RepoPaths :
        /\ Cardinality(LocksOf(path)) <= 1
        /\ path \in DOMAIN _repo_locks => LocksOf(path) = {_repo_locks[path]}
        /\ \A t \in Threads :
            (acquirers[t].pc = "got" /\ acquirers[t].path = Some(path))
            => /\ LocksOf(path) = {acquirers[t].lock[1]}
               /\ \A u \in Threads :
                    (acquirers[u].pc = "got" /\ acquirers[u].path = Some(path))
                    => acquirers[u].lock = acquirers[t].lock

\* One thread has its lock while another, which found none at its first look,
\* holds the guard and is about to look again.
C20_Witness ==
    \E t \in Threads, u \in Threads :
        /\ acquirers[t].pc = "got"
        /\ acquirers[t].path = Some("/test/repo5")
        /\ acquirers[t].lock = Some(1)
        /\ acquirers[u].pc = "create"
        /\ acquirers[u].path = Some("/test/repo5")
        /\ registry_guard = Some(u)
        /\ Len(lock_objects) = 1

\* ------------------------------------------ claims on the guarded operations
Inside(t) == acquirers[t].pc = "inside"

SamePath(t, u) == acquirers[t].path # NULL /\ acquirers[t].path = acquirers[u].path

\* The events of path after position i of execution_order.
LaterEvents(i, path) ==
    {j \in (i + 1)..Len(execution_order) : execution_order[j].path = path}

\* C21: operations under the lock of the same repository path exclude each
\* other: two threads are never inside the block for the same path at the same
\* time, and in the order of events the start of an operation on a path is
\* followed, among the events of that path, by the end (or the raise) of that
\* same operation.
C21_SamePathOperationsSerialize ==
    /\ \A t \in Threads, u \in Threads :
        (t # u /\ Inside(t) /\ Inside(u)) => ~SamePath(t, u)
    /\ \A i \in 1..Len(execution_order) :
        LET e == execution_order[i]
            later == LaterEvents(i, e.path)
        IN  (e.event = "start" /\ later # {})
            => LET next == execution_order[CHOOSE j \in later : \A k \in later : j <= k]
               IN  next.thread = e.thread /\ next.event # "start"

\* One operation on /test/repo6 is over, a second thread is inside the block for
\* the same path and a third, holding the same lock object, waits to enter.
C21_Witness ==
    \E t \in Threads, u \in Threads, v \in Threads :
        /\ acquirers[t].pc = "ended"
        /\ Inside(u)
        /\ acquirers[v].pc = "got"
        /\ acquirers[t].path = Some("/test/repo6")
        /\ SamePath(t, u)
        /\ SamePath(u, v)
        /\ acquirers[v].lock = acquirers[u].lock
        /\ lock_objects[acquirers[u].lock[1]].holder = Some(u)

\* C22: the locks of two different paths are two lock objects, and a thread
\* about to enter the block for its path can enter whenever no thread is inside
\* the block for that same path, whoever is inside for another path; the
\* registry guard is held only for the second look and the creation, never
\* by a thread that is inside a block or waits for one.
C22_DifferentPathsDoNotBlock ==
    /\ \A path \in DOMAIN _repo_locks, other \in DOMAIN _repo_locks :
        path # other => _repo_locks[path] # _repo_locks[other]
    /\ \A t \in Threads :
        (/\ acquirers[t].pc = "got"
         /\ \A u \in Threads : Inside(u) => ~SamePath(t, u))
        => ENABLED OperationStarts(t)
    /\ registry_guard # NULL
        => acquirers[registry_guard[1]].pc \in {"create", "leave"}

\* One thread is inside the block for /test/repo5 while another is inside the
\* block for /test/repo6, which it entered later.
C22_Witness ==
    \E t \in Threads, u \in Threads :
        /\ Inside(t)
        /\ Inside(u)
        /\ acquirers[t].path = Some("/test/repo5")
        /\ acquirers[u].path = Some("/test/repo6")
        /\ \E i \in 1..Len(execution_order) :
            /\ execution_order[i] = [thread |-> t, path |-> "/test/repo5",
                                     event |-> "start"]
            /\ \E j \in (i + 1)..Len(execution_order) :
                execution_order[j].thread = u

\* C23: a thread whose operation is over, by return or by exception, no longer
\* holds its lock, and a thread that has its lock and is about to enter the
\* block eventually enters it.
C23_LockReleasedOnEveryExit ==
    /\ [](\A t \in Threads :
            acquirers[t].pc \in {"ended", "raised"}
            => lock_objects[acquirers[t].lock[1]].holder # Some(t))
    /\ \A t \in Threads : (acquirers[t].pc = "got") ~> Inside(t)

\* An operation on a path raised and a later operation on the same path, by
\* another thread, has started.
C23_Witness ==
    \E i \in 1..Len(execution_order) :
        /\ execution_order[i].event = "raise"
        /\ \E j \in (i + 1)..Len(execution_order) :
            /\ execution_order[j].event = "start"
            /\ execution_order[j].path = execution_order[i].path
            /\ execution_order[j].thread # execution_order[i].thread

\* ------------------------------------------------ claims on session_details
\* The values of a session row that insert_session names.
Upserted(row) == [c \in SessionFields |-> row[c]]

\* The sessions of the table without id, created_at and updated_at.
UpsertedRows(db) == {Upserted(db.rows[i]) : i \in 1..Len(db.rows)}

Returned == {<<t, i>> : t \in InsertThreads, i \in 1..MaxInserts} \cap
            {c \in InsertThreads \X (1..MaxInserts) : c[2] <= Len(thr[c[1]].results)}

Updating(snapshot_id) ==
    {t \in Callers : /\ thr[t].pc \in {"ready", "executed", "done"}
                     /\ thr[t].params # <<>>
                     /\ thr[t].snapshot_id = snapshot_id}

C27_NegativeIdIsRejected ==
    [][(/\ last'.op = "update_snapshot_calculations"
        /\ last'.snapshot_id[1] < 0
        /\ Named(last'.a) # {})
       => /\ last'.raised # NoError
          /\ store' = store]_vars

\* C28: a call of insert_snapshot_tick with None for a required argument
\* (timestamp, five_hour_used, five_hour_limit, seven_day_used or
\* seven_day_limit) raises the IntegrityError of the database, returns no id
\* and leaves the table as it was, and the next insert that succeeds takes the
\* id that follows the rows of the table.
C28_TickWithoutRequiredFieldFails ==
    [][last'.op = "insert_snapshot_tick"
       => IF \E c \in NotNullColumns : last'.a[c] = NULL
          THEN /\ last'.raised = "IntegrityError"
               /\ last'.result = NULL
               /\ store' = store
          ELSE /\ last'.raised = NoError
               /\ last'.result = Some(Len(store) + 1)
               /\ Len(store') = Len(store) + 1]_vars

\* A tick without seven_day_limit has failed on a table of one row, which is
\* still the whole table.
C28_Witness ==
    /\ last.op = "insert_snapshot_tick"
    /\ last.a.seven_day_limit = NULL
    /\ last.a.timestamp # NULL
    /\ last.raised = "IntegrityError"
    /\ last.result = NULL
    /\ Len(store) = 1
    /\ store[1].seven_day_limit = Some(100)

\* C32: validate_session_ids accepts a list exactly when every entry is a
\* string of 1 to 100 characters, each alphanumeric, '-' or '_'; an accepted
\* list is returned as it was given, entry by entry and in order, and one bad
\* entry anywhere rejects the whole list with ValueError.
C32_ValidateSessionIdsAcceptsExactly ==
    last.op = "validate_session_ids" =>
        /\ last.raised = NoError <=> IsSessionList(last.a)
        /\ last.raised = NoError => last.result = Some(last.a)
        /\ last.raised # NoError => last.raised = "ValueError" /\ last.result = NULL

C32_Witness ==
    /\ last.op = "validate_session_ids"
    /\ last.a = <<SidOfLen(100), SidA2>>
    /\ last.result = Some(<<SidOfLen(100), SidA2>>)

\* Two cycles have compared the same reading with the same previous values
\* and both found an increase.
SameIncreaseTwice ==
    \E t, u \in Handlers :
        /\ t # u
        /\ thr[t].should_snapshot /\ thr[u].should_snapshot
        /\ thr[t].against = thr[u].against
        /\ thr[t].reading = thr[u].reading

\* C33: poll cycles never overlap: at most one cycle is in progress at any
\* time, and no two cycles evaluate the trigger against the same previous
\* values.
C33_PollCyclesNeverOverlap ==
    /\ Cardinality(InProgress) <= 1
    /\ ~ SameIncreaseTwice

\* C34: request-handling threads only read the entry cache and query the
\* store: no reload of the JSONL working set is made on a request's thread.
C34_HandlersNeverReload ==
    \A i \in 1..Len(reloads) : reloads[i].thread # "request"

\* C35: on a modification event for a path ending in .jsonl, on_modified
\* posts exactly one reload request to the work queue and reloads nothing
\* itself; for any other path it posts nothing and reloads nothing.
C35_OnModifiedOnlyPosts ==
    [][\A src_path \in EventPaths :
         OnModified(src_path) =>
            /\ reloads' = reloads
            /\ latest_entries' = latest_entries
            /\ file_processing_queue'.queue =
                   IF EndsWith(src_path, "jsonl")
                   THEN Append(file_processing_queue.queue, NULL)
                   ELSE file_processing_queue.queue]_vars

\* The requests marked done so far.
TasksDone == Len(file_processing_queue.put) - file_processing_queue.unfinished_tasks

RECURSIVE Reloaded(_)
Reloaded(items) ==
    IF items = <<>> THEN <<>>
    ELSE IF Head(items) = "bad_item" THEN Reloaded(Tail(items))
    ELSE <<Head(items)>> \o Reloaded(Tail(items))

ObservationColumns == {"id", "recalculated"} \cup RawFields

\* C37: a stored observation is immutable and permanent: no call removes a
\* row, every row keeps its id, timestamp, raw used/limit/pct/reset fields and
\* recalculated flag through every later insert and update, and
\* update_snapshot_calculations changes no row but the one with the id given
\* and adds none, so that it changes nothing when no row has that id.
C37_ObservationsArePermanent ==
    [][/\ Len(store') >= Len(store)
       /\ \A i \in 1..Len(store) :
             /\ store[i].id = Some(i)
             /\ \A c \in ObservationColumns : store'[i][c] = store[i][c]
       /\ last'.op = "update_snapshot_calculations" =>
             /\ Len(store') = Len(store)
             /\ \A i \in 1..Len(store) :
                   store[i].id # last'.snapshot_id => store'[i] = store[i]]_vars

\* Row 1 has been updated next to row 2, which keeps what it was inserted with.
C37_Witness ==
    /\ Len(store) = 2
    /\ last.op = "update_snapshot_calculations"
    /\ last.snapshot_id = Some(1)
    /\ last.executed
    /\ store[1].timestamp = Some(Ts1)
    /\ store[1].five_hour_tokens_consumed = Some(1000)
    /\ store[2].timestamp = Some(Ts2)
    /\ store[2].five_hour_tokens_consumed = Some(7)

\* C38: knowledge on a snapshot only grows: a delta/total field or
\* active_sessions that holds a value is not NULL after any later call,
\* whatever the arguments, None for that field included.
C38_KnowledgeOnlyGrows ==
    /\ [][\A i \in 1..Len(store) :
             \A c \in DeltaFields \cup {"active_sessions"} :
                store[i][c] # NULL => (i <= Len(store') /\ store'[i][c] # NULL)]_vars
    /\ [](\A snapshot_id \in SnapshotIds, a \in UpdateArgsS :
             LET after == update_snapshot_calculations(store, snapshot_id, a).db
             IN  \A i \in 1..Len(store) :
                    \A c \in DeltaFields \cup {"active_sessions"} :
                       store[i][c] # NULL => after[i][c] # NULL)

\* An update that named the five-hour fields only has been made on a row that
\* holds active_sessions and the seven-day fields.
C38_Witness ==
    /\ last.op = "update_snapshot_calculations"
    /\ last.executed
    /\ last.a.active_sessions = NULL
    /\ last.a.seven_day_tokens_consumed = NULL
    /\ last.a.five_hour_tokens_consumed # NULL
    /\ LastRow # NULL
    /\ LastRow[1].active_sessions # NULL
    /\ LastRow[1].seven_day_tokens_consumed # NULL

\* The first poll of a process that found a snapshot when it started.
FirstPollAfterRestart ==
    /\ cycle = NoCycle
    /\ store # <<>>
    /\ cycle' # NoCycle
    /\ cycle'.reading # NULL

\* C39: restart does not fabricate an increase: with the previous values
\* primed from the latest stored snapshot, a first poll whose reading equals
\* the reading that produced that snapshot triggers no snapshot.
C39_RestartFabricatesNoIncrease ==
    [][\A latest_snapshot \in get_latest_snapshot(store) :
         (/\ FirstPollAfterRestart
          /\ previous_usage = main_previous_usage(latest_snapshot)
          /\ cycle'.reading[1] = <<latest_snapshot[1].five_hour_pct[1],
                                   latest_snapshot[1].seven_day_pct[1]>>)
         => (~ cycle'.should_snapshot /\ store' = store)]_vars

\* C40: a failed snapshot write does not fail the poll cycle: when the trigger
\* fires on a 200 response and the insert raises, the cycle returns the parsed
\* data, the cache holds it, both previous values are the new reading, the
\* store has gained no row, and the same reading would not trigger again.
C40_FailedWriteDoesNotFailCycle ==
    [][\A u \in Readings, utcnow \in {Ts1, Ts2} :
         (/\ FetchUsageDataStored(OkResponse(UsageBody(u[1], u[2])), utcnow,
                                  "OperationalError")
          /\ should_snapshot(previous_usage, u[1], u[2]))
         => /\ cycle'.result = Some(UsageBody(u[1], u[2]))
            /\ usage_cache' = [data |-> Some(UsageBody(u[1], u[2])),
                               timestamp |-> clock]
            /\ previous_usage' = [five_hour_used |-> Some(u[1]),
                                  seven_day_used |-> Some(u[2])]
            /\ store' = store
            /\ ~ should_snapshot(previous_usage', u[1], u[2])]_vars

\* The trigger fired for the reading (51, 30) and the store has no row for it.
C40_Witness ==
    /\ cycle.should_snapshot
    /\ cycle.inserts = 1
    /\ cycle.reading = Some(<<510, 300>>)
    /\ cycle.result = Some(UsageBody(510, 300))
    /\ store = <<>>
    /\ usage_cache.data = Some(UsageBody(510, 300))
    /\ previous_usage = [five_hour_used |-> Some(510), seven_day_used |-> Some(300)]

====
